---- MODULE Spec2Model ----
(***************************************************************************)
(* Model of the Texas Lottery scratch-off analyzer: the React application  *)
(* (src/src/App.tsx) that lists the games, fetches every game's detail in  *)
(* batches of BATCH_SIZE concurrent requests, merges each result into the  *)
(* games collection and caches the snapshot in localStorage.               *)
(*                                                                         *)
(* Representation notes.                                                   *)
(*  - A JSON text is represented by [json |-> TRUE, value |-> v] when it   *)
(*    parses to v, and by [json |-> FALSE, ...] when the parser throws on  *)
(*    it.                                                                  *)
(*  - null (lastUpdated, localStorage.getItem) is the number Null.         *)
(*  - maxLossPercent, a fraction, is kept as an exact fraction <<n, d>>    *)
(*    in lowest terms.                                                     *)
(*  - Time is in milliseconds since the first page load.                   *)
(***************************************************************************)
EXTENDS Integers, Sequences, FiniteSets, TLC

VARIABLES
    page,           \* the world: the summaries the listing page yields
    pc,             \* where the page is: "mounting", "idle", "listing", "detailing"
    appState,       \* App.tsx useState<AppState>
    games,          \* App.tsx useState<Game[]>
    progress,       \* App.tsx useState({current, total})
    errorMsg,       \* App.tsx useState('')
    lastUpdated,    \* App.tsx useState<number | null>
    localStorage,   \* the item stored under CACHE_KEY: <<>> or <<text>>
    now,            \* Date.now()
    rendered,       \* the tree App rendered last: the isStale its render evaluated
    summaries,      \* loadGames: let summaries
    i,              \* loadGames: the batch loop's index
    inflight,       \* indices of summaries whose detail fetch is awaiting its response
    completed,      \* loadGames: let completed
    completedGames, \* loadGames: const completedGames
    listRes,        \* loadGames: const res of the listing fetch, Pending before
    detailRes,      \* loadGames: per summary, const res of its detail fetch
    listResult,     \* history: what the listing step of this run settled with
    results,        \* history: per summary, what its item settled with
    fetches,        \* history: per summary, the number of detail fetches issued
    cacheFailed,    \* history: this run's localStorage.setItem threw
    cacheWritten,   \* history: this run wrote the item of CACHE_KEY
    batches,        \* history: the number of batches this run has started
    exported,       \* history: what the Export button last handed to exportToXlsx
    str,            \* parseDollar, parseNum, parseOdds: the argument
    called,         \* the normalizer that was called with str: "none" before the call
    returned,       \* what the call returned
    listHtml,       \* the listing page a listing function has fetched: its table rows
    listHandler,    \* the listing function that has run on listHtml: "none" before
    listGames,      \* the games array of the function's answer
    detailHtml,     \* the detail page a detail function has fetched: its elements
    detailHandler,  \* the detail function that runs on detailHtml: "none" before
    scanAt,         \* where that function is in its scan of the page
    scalars,        \* its locals packSize, guaranteedPrizeAmount, totalTickets, overallOdds
    prizes          \* its locals topPrize, topPrizeInGame, topPrizeClaimed, prizesFound

(* The state of the page (App.tsx) *)
appVars == <<page, pc, appState, games, progress, errorMsg, lastUpdated, localStorage,
             now, rendered, summaries, i, inflight, completed, completedGames,
             listRes, detailRes, listResult, results, fetches, cacheFailed,
             cacheWritten, batches, exported>>

(* The state of one call of a text normalizer *)
normVars == <<str, called, returned>>

(* The state of one invocation of a listing function *)
listVars == <<listHtml, listHandler, listGames>>

(* The state of one invocation of a detail function *)
detailVars == <<detailHtml, detailHandler, scanAt, scalars, prizes>>

(* The state of the functions behind fetch(), which run on the server *)
extractVars == <<normVars, listVars, detailVars>>

vars == <<appVars, extractVars>>

-----------------------------------------------------------------------------
(* Bounds of the model *)

MaxGames == 2

MaxTicks == 1

-----------------------------------------------------------------------------
(* Program constants *)

BATCH_SIZE == 8

CACHE_DURATION_MS == 24 * 60 * 60 * 1000

BASE_URL == "https://www.texaslottery.com"

Null == -1

Pending == [kind |-> "pending"]

ClockStep == CACHE_DURATION_MS + 1

Min(a, b) == IF a < b THEN a ELSE b

Max(a, b) == IF a > b THEN a ELSE b

Abs(a) == IF a < 0 THEN 0 - a ELSE a

RECURSIVE Gcd(_, _)
Gcd(a, b) == IF b = 0 THEN a ELSE Gcd(b, a % b)

(* A fraction n/d in lowest terms (a JavaScript number that is no integer). *)
Fraction(n, d) == LET g == Gcd(n, d) IN <<n \div g, d \div g>>

-----------------------------------------------------------------------------
(* The records of types/Game.ts *)

(* Mutant of computeFields: topPrizesRemaining without Math.max(0, ...). *)
computeFields_NoClamp(summary, detail) ==
    LET packCost == summary.ticketPrice * detail.packSize
        maxLoss == detail.guaranteedPrizeAmount - packCost
        maxLossPercent == IF packCost > 0
                          THEN Fraction(Abs(maxLoss) * 100, packCost)
                          ELSE <<0, 1>>
        topPrizesRemaining == detail.topPrizeInGame - detail.topPrizeClaimed
    IN  [packCost |-> packCost,
         maxLoss |-> maxLoss,
         maxLossPercent |-> maxLossPercent,
         topPrizesRemaining |-> topPrizesRemaining,
         status |-> "done"] @@ detail @@ summary

(* function computeFields(summary, detail): Game *)
computeFields(summary, detail) ==
    LET packCost == summary.ticketPrice * detail.packSize
        maxLoss == detail.guaranteedPrizeAmount - packCost
        maxLossPercent == IF packCost > 0
                          THEN Fraction(Abs(maxLoss) * 100, packCost)
                          ELSE <<0, 1>>
        topPrizesRemaining == Max(0, detail.topPrizeInGame - detail.topPrizeClaimed)
    IN  [packCost |-> packCost,
         maxLoss |-> maxLoss,
         maxLossPercent |-> maxLossPercent,
         topPrizesRemaining |-> topPrizesRemaining,
         status |-> "done"] @@ detail @@ summary

(* The detail and derived fields of a record that carries no detail. *)
DefaultFields(odds) ==
    [packSize |-> 0,
     guaranteedPrizeAmount |-> 0,
     totalTickets |-> 0,
     overallOdds |-> odds,
     topPrize |-> 0,
     topPrizeInGame |-> 0,
     topPrizeClaimed |-> 0,
     prizesFound |-> FALSE,
     packCost |-> 0,
     maxLoss |-> 0,
     maxLossPercent |-> <<0, 1>>,
     topPrizesRemaining |-> 0]

(* loadGames: one element of initGames, the loading skeleton of a summary *)
loadingGame(summary) ==
    ([status |-> "loading"] @@ DefaultFields("...")) @@ summary

(* loadGames: const initGames = summaries.map(...) *)
initGames(ss) == [k \in 1..Len(ss) |-> loadingGame(ss[k])]

(* loadGames: const errorGame in the catch block of one item *)
errorGame(summary, message) ==
    ([status |-> "error", errorMessage |-> message] @@ DefaultFields("N/A")) @@ summary

-----------------------------------------------------------------------------
(* Responses of fetch() *)

(* fetch rejected: no response at all *)
Rejected == [kind |-> "reject", ok |-> FALSE, status |-> 0, body |-> [json |-> FALSE]]

Response(status, body) ==
    [kind |-> "response", ok |-> (status >= 200 /\ status <= 299), status |-> status,
     body |-> body]

Json(v) == [json |-> TRUE, value |-> v]

(* The body texts that are no JSON: an HTML error page of a gateway, and nothing. *)
HtmlText == "<html><body>Bad Gateway</body></html>"

EmptyText == ""

(* The messages of the SyntaxError that res.json() throws on a body text that is
   no JSON. The JavaScript engine words the message; these are the wordings of V8
   with and without the prefix of Response.json. *)
JsonSyntaxMessages(text) ==
    IF text = EmptyText
    THEN {"Failed to execute 'json' on 'Response': Unexpected end of JSON input",
          "Unexpected end of JSON input"}
    ELSE {"Failed to execute 'json' on 'Response': Unexpected token '<', \"<html><bod\"... is not valid JSON",
          "Unexpected token '<', \"<html><bod\"... is not valid JSON"}

(* A body that is no JSON, in an engine that words the error as message. *)
NotJson(text, message) == [json |-> FALSE, text |-> text, message |-> message]

(* The message of the TypeError a rejected fetch throws. *)
FetchRejectedMessage == "Failed to fetch"

(* err.message of the SyntaxError res.json() throws on body *)
JsonSyntaxMessage(body) == body.message

(* value.error || fallback, for a parsed JSON object *)
ErrorOr(value, fallback) ==
    IF "error" \in DOMAIN value /\ value.error # "" THEN value.error ELSE fallback

(* loadGames: the try/catch of one item of a batch: the record it merges *)
fetchDetail(summary, resp) ==
    IF resp.kind = "reject" THEN errorGame(summary, FetchRejectedMessage)
    ELSE IF ~resp.body.json THEN errorGame(summary, JsonSyntaxMessage(resp.body))
    ELSE IF ~resp.ok THEN errorGame(summary, ErrorOr(resp.body.value, "Detail fetch failed"))
    ELSE computeFields(summary, resp.body.value)

(* setGames(prev => prev.map(g => g.gameNumber === gameNumber ? game : g)) *)
mergeGame(prev, gameNumber, game) ==
    [k \in 1..Len(prev) |-> IF prev[k].gameNumber = gameNumber THEN game ELSE prev[k]]

-----------------------------------------------------------------------------
(* The world: what the two functions behind fetch() can answer *)

GameNumber(n) == ToString(2500 + n)

(* get-games.js: const detailUrl, built from the row's href *)
DetailUrl(gameNumber) ==
    BASE_URL \o "/export/sites/lottery/Games/Scratch_Offs/details.html_" \o gameNumber \o ".html"

(* get-games.js: the summary pushed for the game row of game n *)
GameRow(n) ==
    [gameNumber |-> GameNumber(n),
     gameName |-> "Game " \o ToString(n),
     startDate |-> "2025-01-0" \o ToString(n),
     ticketPrice |-> 5 * n,
     detailUrl |-> DetailUrl(GameNumber(n))]

(* get-games.js: the summary pushed for a prize-tier row that repeats the link of
   game n: the same game number and detail page, other cells *)
PrizeTierRow(n) ==
    [gameNumber |-> GameNumber(n),
     gameName |-> "Prize tier",
     startDate |-> "",
     ticketPrice |-> 0,
     detailUrl |-> DetailUrl(GameNumber(n))]

(* The rows a small listing page is made of. *)
Rows == {GameRow(1), GameRow(2)}

RECURSIVE SeqsUpTo(_, _)
SeqsUpTo(S, n) ==
    IF n = 0 THEN {<<>>}
    ELSE LET shorter == SeqsUpTo(S, n - 1)
         IN  shorter \cup {Append(q, x) : q \in {r \in shorter : Len(r) = n - 1}, x \in S}

(* A listing page of as many games as one batch and one more: games 3, 4, ... *)
LongPage == [k \in 1..(BATCH_SIZE + 1) |-> GameRow(k + 2)]

(* The pages of a game row and a prize-tier row of the same game *)
TierPages ==
    {<<GameRow(1), PrizeTierRow(1)>>, <<PrizeTierRow(1), GameRow(1)>>}

(* get-games.js pushes one summary per row that has a link and a name, in document
   order, and removes no duplicate: a page is any sequence of rows. *)
Pages == (SeqsUpTo(Rows, MaxGames) \ {<<>>}) \cup TierPages \cup {LongPage}

(* The games whose detail page is online: those of the small pages, and the last
   game of the long page. *)
Online == {DetailUrl(GameNumber(n)) : n \in {1, 2, BATCH_SIZE + 3}}

(* get-game-detail.js: the body of its 200 answer for a detail page *)
DetailPage(url) ==
    IF url = DetailUrl(GameNumber(1))
    THEN [packSize |-> 75, guaranteedPrizeAmount |-> 125, totalTickets |-> 1000,
          overallOdds |-> "1 in 4.33", topPrize |-> 100000, topPrizeInGame |-> 4,
          topPrizeClaimed |-> 1, prizesFound |-> TRUE]
    ELSE IF url = DetailUrl(GameNumber(2))
    THEN [packSize |-> 0, guaranteedPrizeAmount |-> 250, totalTickets |-> 0,
          overallOdds |-> "N/A", topPrize |-> 500, topPrizeInGame |-> 2,
          topPrizeClaimed |-> 3, prizesFound |-> TRUE]
    ELSE [packSize |-> 10, guaranteedPrizeAmount |-> 400, totalTickets |-> 2000,
          overallOdds |-> "1 in 3", topPrize |-> 0, topPrizeInGame |-> 0,
          topPrizeClaimed |-> 0, prizesFound |-> FALSE]

(* get-game-detail.js: the body of its 500 answer *)
DetailError == [error |-> "Failed to fetch detail page: 404"]

(* What the fetch of get-games can bring when the listing page yields listing: the
   function's 200 answer with the listing, its 200 answer with no game (no row of
   the page it fetched matched), its 500 answer, a body that is no JSON, or no
   response. *)
ListResponses(listing) ==
    {Response(200, Json([games |-> listing, total |-> Len(listing)])),
     Response(200, Json([games |-> <<>>, total |-> 0])),
     Response(500, Json([error |-> "Failed to fetch game list: 503"])),
     Rejected}
    \cup {Response(200, NotJson(HtmlText, message)) :
              message \in JsonSyntaxMessages(HtmlText)}
    \cup {Response(200, NotJson(EmptyText, message)) :
              message \in JsonSyntaxMessages(EmptyText)}

(* What the fetch of get-game-detail can bring for one detail page. For a page that
   is online: the function's 200 answer, or a failure on the way (no response for
   game 1, a body that is no JSON for game 2, an answer without an error text for
   the last game of the long page). For a page that is offline: the 500 answer the function gives when the
   site answers 404. *)
DetailResponses(url) ==
    IF url = DetailUrl(GameNumber(1))
    THEN {Response(200, Json(DetailPage(url))), Rejected}
    ELSE IF url = DetailUrl(GameNumber(2))
    THEN {Response(200, Json(DetailPage(url)))}
         \cup {Response(502, NotJson(HtmlText, message)) :
                   message \in JsonSyntaxMessages(HtmlText)}
    ELSE IF url \in Online
    THEN {Response(200, Json(DetailPage(url))), Response(400, Json([error |-> ""]))}
    ELSE {Response(500, Json(DetailError))}

-----------------------------------------------------------------------------
(* The page *)

(* const isLoading *)
isLoading == appState = "fetching-list" \/ appState = "fetching-details"

(* const isStale, as a render of this moment evaluates it *)
isStale == lastUpdated # Null /\ now - lastUpdated > CACHE_DURATION_MS

(* {isStale && appState === 'done' && (...)}: the stale-data warning is in the tree
   of the last render. Every change of appState renders, so the appState of that
   render is the current one. *)
staleWarning == rendered.isStale /\ appState = "done"

(* Mutant of batch: summaries.slice(i, i + BATCH_SIZE - 1), a slice one short. *)
batch_OneShort(start, n) == (start + 1)..Min(start + BATCH_SIZE - 1, n)

(* summaries.slice(i, i + BATCH_SIZE), as the indices (from 1) of its elements *)
batch(start, n) == (start + 1)..Min(start + BATCH_SIZE, n)

(* Mutant of batchSettled: Promise.race in place of Promise.all, which resolves
   with the first item that settles. *)
batchSettled_Race == inflight # batch(i, Len(summaries))

(* await Promise.all(...) of the current batch has resolved *)
batchSettled == inflight \cap batch(i, Len(summaries)) = {}

(* The error loadGames throws in its listing step, "" when it throws none. *)
listingError(resp) ==
    IF resp.kind = "reject" THEN FetchRejectedMessage
    ELSE IF ~resp.ok THEN "List fetch failed: " \o ToString(resp.status)
    ELSE IF ~resp.body.json THEN JsonSyntaxMessage(resp.body)
    ELSE IF "games" \notin DOMAIN resp.body.value \/ Len(resp.body.value.games) = 0
         THEN "No games returned from list page"
    ELSE ""

(* const cacheData *)
cacheData ==
    [games |-> IF Len(completedGames) > 0 THEN completedGames ELSE initGames(summaries),
     timestamp |-> now]

(* JSON null as a parsed value: a value that is no object of the program. *)
JsonNullValue == [null |-> TRUE]

(* An item of CACHE_KEY whose text is no JSON *)
TextItem(text) == [json |-> FALSE, text |-> text]

(* What the browser's store may hold under CACHE_KEY when the page is first loaded:
   no item, or an item that no run of this page wrote: the empty text, a text that
   was cut short, the text null, or a snapshot with no games. *)
Stores ==
    {<<>>,
     <<TextItem(EmptyText)>>,
     <<TextItem("{\"games\":[{\"gameNumber\":\"25")>>,
     <<Json(JsonNullValue)>>,
     <<Json([games |-> <<>>, timestamp |-> 0])>>}

(* if (cached): getItem gave a text (not null), and the text is not empty *)
cachedTruthy(store) ==
    /\ store # <<>>
    /\ store[1].json \/ store[1].text # EmptyText

(* The try block of the mount effect throws on the item: JSON.parse throws a
   SyntaxError on a text that is no JSON, and data.games throws a TypeError when
   the text parsed to null. *)
tryThrows(item) == ~item.json \/ item.value = JsonNullValue

(* No normalizer is called. *)
NormIdle == str = <<>> /\ called = "none" /\ returned = 0

(* No listing function is invoked. *)
ListIdle == listHtml = <<>> /\ listHandler = "none" /\ listGames = <<>>

(* No detail function is invoked. *)
DetailIdle ==
    /\ detailHtml = <<>>
    /\ detailHandler = "none"
    /\ scanAt = [phase |-> "none", k |-> 0]
    /\ scalars = <<>>
    /\ prizes = <<>>

(* No function runs on the server. *)
ExtractIdle == NormIdle /\ ListIdle /\ DetailIdle

(* No page is open: the state of the page while only a server function runs. *)
AppOff ==
    /\ page = <<>>
    /\ pc = "off"
    /\ appState = "idle"
    /\ games = <<>>
    /\ progress = [current |-> 0, total |-> 0]
    /\ errorMsg = ""
    /\ lastUpdated = Null
    /\ localStorage = <<>>
    /\ now = 0
    /\ rendered = [isStale |-> FALSE]
    /\ summaries = <<>>
    /\ i = 0
    /\ inflight = {}
    /\ completed = 0
    /\ completedGames = <<>>
    /\ listRes = Pending
    /\ detailRes = <<>>
    /\ listResult = Pending
    /\ results = <<>>
    /\ fetches = <<>>
    /\ cacheFailed = FALSE
    /\ cacheWritten = FALSE
    /\ batches = 0
    /\ exported = <<>>

Init ==
    /\ ExtractIdle
    /\ page \in Pages
    /\ pc = "mounting"
    /\ appState = "idle"
    /\ games = <<>>
    /\ progress = [current |-> 0, total |-> 0]
    /\ errorMsg = ""
    /\ lastUpdated = Null
    /\ localStorage \in Stores
    /\ now = 0
    /\ rendered = [isStale |-> FALSE]
    /\ summaries = <<>>
    /\ i = 0
    /\ inflight = {}
    /\ completed = 0
    /\ completedGames = <<>>
    /\ listRes = Pending
    /\ detailRes = <<>>
    /\ listResult = Pending
    /\ results = <<>>
    /\ fetches = <<>>
    /\ cacheFailed = FALSE
    /\ cacheWritten = FALSE
    /\ batches = 0
    /\ exported = <<>>

(* A state of the component was set: App renders again, and the render evaluates
   const isStale with the Date.now() of its moment. *)
Render == rendered' = [isStale |-> isStale']

(* Mutant of Mount: a snapshot older than CACHE_DURATION_MS is removed and not
   shown. *)
Mount_DropsStale ==
    /\ pc = "mounting"
    /\ pc' = "idle"
    /\ IF ~cachedTruthy(localStorage)
       THEN UNCHANGED <<games, lastUpdated, appState, localStorage>>
       ELSE IF tryThrows(localStorage[1])
       THEN /\ localStorage' = <<>>
            /\ UNCHANGED <<games, lastUpdated, appState>>
       ELSE LET data == localStorage[1].value
            IN  IF now - data.timestamp > CACHE_DURATION_MS
                THEN /\ localStorage' = <<>>
                     /\ UNCHANGED <<games, lastUpdated, appState>>
                ELSE IF "games" \in DOMAIN data /\ Len(data.games) > 0
                THEN /\ games' = data.games
                     /\ lastUpdated' = data.timestamp
                     /\ appState' = "done"
                     /\ UNCHANGED localStorage
                ELSE UNCHANGED <<games, lastUpdated, appState, localStorage>>
    /\ UNCHANGED <<progress, errorMsg, now, summaries, i, inflight, completed,
                   completedGames, listRes, detailRes, listResult, results, fetches,
                   cacheFailed, cacheWritten, extractVars, page, batches, exported>>
    /\ Render

(* useEffect(() => {...}, []): load the cached snapshot on mount *)
Mount ==
    /\ pc = "mounting"
    /\ pc' = "idle"
    /\ IF ~cachedTruthy(localStorage)
       THEN UNCHANGED <<games, lastUpdated, appState, localStorage>>
       ELSE IF tryThrows(localStorage[1])
       THEN /\ localStorage' = <<>>
            /\ UNCHANGED <<games, lastUpdated, appState>>
       ELSE LET data == localStorage[1].value
            IN  IF "games" \in DOMAIN data /\ Len(data.games) > 0
                THEN /\ games' = data.games
                     /\ lastUpdated' = data.timestamp
                     /\ appState' = "done"
                     /\ UNCHANGED localStorage
                ELSE UNCHANGED <<games, lastUpdated, appState, localStorage>>
    /\ UNCHANGED <<progress, errorMsg, now, summaries, i, inflight, completed,
                   completedGames, listRes, detailRes, listResult, results, fetches,
                   cacheFailed, cacheWritten, extractVars, page, batches, exported>>
    /\ Render

(* Mutant of Refresh: the button without disabled={isLoading}. A click while a run
   is in flight starts loadGames again; the fetches of the run in flight stay
   pending. *)
Refresh_NotDisabled ==
    /\ pc # "mounting"
    /\ appState' = "fetching-list"
    /\ games' = <<>>
    /\ errorMsg' = ""
    /\ pc' = "listing"
    /\ summaries' = <<>>
    /\ i' = 0
    /\ completed' = 0
    /\ completedGames' = <<>>
    /\ listRes' = Pending
    /\ detailRes' = <<>>
    /\ listResult' = Pending
    /\ results' = <<>>
    /\ fetches' = <<>>
    /\ cacheFailed' = FALSE
    /\ cacheWritten' = FALSE
    /\ batches' = 0
    /\ exported' = <<>>
    /\ UNCHANGED <<inflight, progress, lastUpdated, localStorage, now, extractVars, page>>
    /\ Render

(* Mutant of Refresh: loadGames without its setGames([]). *)
Refresh_KeepsGames ==
    /\ pc # "mounting"
    /\ ~isLoading
    /\ appState' = "fetching-list"
    /\ errorMsg' = ""
    /\ pc' = "listing"
    /\ summaries' = <<>>
    /\ i' = 0
    /\ inflight' = {}
    /\ completed' = 0
    /\ completedGames' = <<>>
    /\ listRes' = Pending
    /\ detailRes' = <<>>
    /\ listResult' = Pending
    /\ results' = <<>>
    /\ fetches' = <<>>
    /\ cacheFailed' = FALSE
    /\ cacheWritten' = FALSE
    /\ batches' = 0
    /\ exported' = <<>>
    /\ UNCHANGED <<games, progress, lastUpdated, localStorage, now, extractVars, page>>
    /\ Render

(* The Refresh button (disabled={isLoading}) calls loadGames, which runs up to its
   first await: the fetch of the listing. *)
Refresh ==
    /\ pc # "mounting"
    /\ ~isLoading
    /\ appState' = "fetching-list"
    /\ games' = <<>>
    /\ errorMsg' = ""
    /\ pc' = "listing"
    /\ summaries' = <<>>
    /\ i' = 0
    /\ inflight' = {}
    /\ completed' = 0
    /\ completedGames' = <<>>
    /\ listRes' = Pending
    /\ detailRes' = <<>>
    /\ listResult' = Pending
    /\ results' = <<>>
    /\ fetches' = <<>>
    /\ cacheFailed' = FALSE
    /\ cacheWritten' = FALSE
    /\ batches' = 0
    /\ exported' = <<>>
    /\ UNCHANGED <<progress, lastUpdated, localStorage, now, extractVars, page>>
    /\ Render

(* loadGames, step 1, await fetch(...): the listing fetch has resolved with the
   response resp, res.ok holds, and loadGames awaits res.json(). No state of the
   component is set. *)
ListingResponded(resp) ==
    /\ pc = "listing"
    /\ listRes = Pending
    /\ resp.kind = "response"
    /\ resp.ok
    /\ listRes' = resp
    /\ UNCHANGED <<pc, appState, games, progress, errorMsg, lastUpdated, localStorage,
                   now, rendered, summaries, i, inflight, completed, completedGames,
                   detailRes, listResult, results, fetches, cacheFailed, cacheWritten,
                   extractVars, page, batches, exported>>

(* loadGames, step 1, to its end: the listing fetch has settled with resp. Either
   the fetch rejected or its response is not ok, and the code throws without a
   second await; or the body of the ok response res has arrived. On an error the
   run ends; otherwise the skeletons are shown and the fetches of the first batch
   are issued. *)
ListingSettled(resp) ==
    /\ pc = "listing"
    /\ IF resp.kind = "response" /\ resp.ok THEN listRes = resp ELSE listRes = Pending
    /\ listResult' = resp
    /\ IF listingError(resp) # ""
       THEN /\ errorMsg' = listingError(resp)
            /\ appState' = "error"
            /\ pc' = "idle"
            /\ UNCHANGED <<games, progress, summaries, i, inflight, completed,
                           completedGames, detailRes, results, fetches, batches>>
       ELSE LET ss == resp.body.value.games
                n == Len(ss)
            IN  /\ summaries' = ss
                /\ games' = initGames(ss)
                /\ progress' = [current |-> 0, total |-> n]
                /\ appState' = "fetching-details"
                /\ completed' = 0
                /\ completedGames' = <<>>
                /\ i' = 0
                /\ inflight' = batch(0, n)
                /\ fetches' = [k \in 1..n |-> IF k \in batch(0, n) THEN 1 ELSE 0]
                /\ detailRes' = [k \in 1..n |-> Pending]
                /\ results' = [k \in 1..n |-> Pending]
                /\ batches' = 1
                /\ pc' = "detailing"
                /\ UNCHANGED errorMsg
    /\ UNCHANGED <<lastUpdated, localStorage, now, listRes, cacheFailed, cacheWritten,
                   extractVars, page, exported>>
    /\ Render

(* loadGames, step 2, await fetch(...) of one item: the detail fetch of
   summaries[k] has resolved with the response resp, and the item awaits
   res.json(). No state of the component is set. *)
DetailResponded(k, resp) ==
    /\ pc = "detailing"
    /\ k \in inflight
    /\ detailRes[k] = Pending
    /\ resp.kind = "response"
    /\ detailRes' = [detailRes EXCEPT ![k] = resp]
    /\ UNCHANGED <<pc, appState, games, progress, errorMsg, lastUpdated, localStorage,
                   now, rendered, summaries, i, inflight, completed, completedGames,
                   listRes, listResult, results, fetches, cacheFailed, cacheWritten,
                   extractVars, page, batches, exported>>

(* The detail fetch of summaries[k] has settled with resp: the fetch rejected, or
   the body of its response res has arrived. *)
detailSettles(k, resp) ==
    IF resp.kind = "reject" THEN detailRes[k] = Pending ELSE detailRes[k] = resp

(* Mutant of DetailSettled: an item's failure is not kept at the item; it ends the
   run as a listing failure does (setErrorMsg, setAppState('error')). *)
DetailSettled_Fatal(k, resp) ==
    /\ pc = "detailing"
    /\ k \in inflight
    /\ detailSettles(k, resp)
    /\ LET summary == summaries[k]
           game == fetchDetail(summary, resp)
       IN  /\ games' = mergeGame(games, summary.gameNumber, game)
           /\ completedGames' = IF game.status = "done"
                                THEN Append(completedGames, game)
                                ELSE completedGames
           /\ IF game.status = "error"
              THEN /\ errorMsg' = game.errorMessage
                   /\ appState' = "error"
                   /\ pc' = "idle"
              ELSE UNCHANGED <<errorMsg, appState, pc>>
    /\ completed' = completed + 1
    /\ progress' = [progress EXCEPT !.current = completed + 1]
    /\ inflight' = inflight \ {k}
    /\ results' = [results EXCEPT ![k] = resp]
    /\ UNCHANGED <<lastUpdated, localStorage, now, summaries, i, listRes, detailRes,
                   listResult, fetches, cacheFailed, cacheWritten, extractVars, page,
                   batches, exported>>
    /\ Render

(* loadGames, step 2, one item to its end: the detail fetch of summaries[k] has
   settled with resp; the item's try/catch/finally merges its record and counts
   it. *)
DetailSettled(k, resp) ==
    /\ pc = "detailing"
    /\ k \in inflight
    /\ detailSettles(k, resp)
    /\ LET summary == summaries[k]
           game == fetchDetail(summary, resp)
       IN  /\ games' = mergeGame(games, summary.gameNumber, game)
           /\ completedGames' = IF game.status = "done"
                                THEN Append(completedGames, game)
                                ELSE completedGames
    /\ completed' = completed + 1
    /\ progress' = [progress EXCEPT !.current = completed + 1]
    /\ inflight' = inflight \ {k}
    /\ results' = [results EXCEPT ![k] = resp]
    /\ UNCHANGED <<pc, appState, errorMsg, lastUpdated, localStorage, now, summaries,
                   i, listRes, detailRes, listResult, fetches, cacheFailed,
                   cacheWritten, extractVars, page, batches, exported>>
    /\ Render

(* Mutant of StartNextBatch: the loop written with i++ in place of
   i += BATCH_SIZE. *)
StartNextBatch_StepOne ==
    /\ pc = "detailing"
    /\ batchSettled
    /\ i + 1 < Len(summaries)
    /\ i' = i + 1
    /\ batches' = batches + 1
    /\ inflight' = inflight \cup batch(i + 1, Len(summaries))
    /\ fetches' = [k \in 1..Len(summaries) |->
                     IF k \in batch(i + 1, Len(summaries))
                     THEN fetches[k] + 1 ELSE fetches[k]]
    /\ UNCHANGED <<pc, appState, games, progress, errorMsg, lastUpdated, localStorage,
                   now, rendered, summaries, completed, completedGames, listRes,
                   detailRes, listResult, results, cacheFailed, cacheWritten,
                   extractVars, page, exported>>

(* The for loop after await Promise.all: the next batch's fetches are issued. *)
StartNextBatch ==
    /\ pc = "detailing"
    /\ batchSettled
    /\ i + BATCH_SIZE < Len(summaries)
    /\ i' = i + BATCH_SIZE
    /\ batches' = batches + 1
    /\ inflight' = inflight \cup batch(i + BATCH_SIZE, Len(summaries))
    /\ fetches' = [k \in 1..Len(summaries) |->
                     IF k \in batch(i + BATCH_SIZE, Len(summaries))
                     THEN fetches[k] + 1 ELSE fetches[k]]
    /\ UNCHANGED <<pc, appState, games, progress, errorMsg, lastUpdated, localStorage,
                   now, rendered, summaries, completed, completedGames, listRes,
                   detailRes, listResult, results, cacheFailed, cacheWritten,
                   extractVars, page, exported>>

(* Mutant of Finish: setLastUpdated(timestamp) before localStorage.setItem, so that
   it runs when the write throws too. *)
Finish_StampFirst(setItemThrows) ==
    /\ pc = "detailing"
    /\ batchSettled
    /\ ~(i + BATCH_SIZE < Len(summaries))
    /\ lastUpdated' = cacheData.timestamp
    /\ IF setItemThrows
       THEN /\ cacheFailed' = TRUE
            /\ UNCHANGED <<localStorage, cacheWritten>>
       ELSE /\ localStorage' = <<Json(cacheData)>>
            /\ cacheWritten' = TRUE
            /\ UNCHANGED cacheFailed
    /\ appState' = "done"
    /\ pc' = "idle"
    /\ UNCHANGED <<games, progress, errorMsg, now, summaries, i, inflight, completed,
                   completedGames, listRes, detailRes, listResult, results, fetches,
                   extractVars, page, batches, exported>>
    /\ Render

(* The loop has ended: the snapshot is written to localStorage (setItemThrows: the
   write fails), and the run is done. *)
Finish(setItemThrows) ==
    /\ pc = "detailing"
    /\ batchSettled
    /\ ~(i + BATCH_SIZE < Len(summaries))
    /\ IF setItemThrows
       THEN /\ cacheFailed' = TRUE
            /\ UNCHANGED <<localStorage, lastUpdated, cacheWritten>>
       ELSE /\ localStorage' = <<Json(cacheData)>>
            /\ lastUpdated' = cacheData.timestamp
            /\ cacheWritten' = TRUE
            /\ UNCHANGED cacheFailed
    /\ appState' = "done"
    /\ pc' = "idle"
    /\ UNCHANGED <<games, progress, errorMsg, now, summaries, i, inflight, completed,
                   completedGames, listRes, detailRes, listResult, results, fetches,
                   extractVars, page, batches, exported>>
    /\ Render

(* Time passes. No state of the component changes, so nothing is rendered: the
   tree of the last render stays. *)
Tick ==
    /\ now < MaxTicks * ClockStep
    /\ now' = now + ClockStep
    /\ UNCHANGED <<pc, appState, games, progress, errorMsg, lastUpdated, localStorage,
                   rendered, summaries, i, inflight, completed, completedGames,
                   listRes, detailRes, listResult, results, fetches, cacheFailed,
                   cacheWritten, extractVars, page, batches, exported>>

(* GameTable calls onMinDateChange or onPriceFilterChange (setMinDate,
   setSelectedPrices): App renders again. The table is rendered only when
   games.length > 0; the filters themselves, which select the rows the table
   shows, are not part of the model. *)
FilterChange ==
    /\ pc # "mounting"
    /\ Len(games) > 0
    /\ UNCHANGED <<pc, appState, games, progress, errorMsg, lastUpdated, localStorage,
                   now, summaries, i, inflight, completed, completedGames,
                   listRes, detailRes, listResult, results, fetches, cacheFailed,
                   cacheWritten, extractVars, page, batches, exported>>
    /\ Render

(* The page is loaded again: every state of the component starts over, and a run
   in flight is abandoned with the page; localStorage stays. The first render
   finds lastUpdated null. *)
Reload ==
    /\ pc # "mounting"
    /\ pc' = "mounting"
    /\ appState' = "idle"
    /\ games' = <<>>
    /\ progress' = [current |-> 0, total |-> 0]
    /\ errorMsg' = ""
    /\ lastUpdated' = Null
    /\ summaries' = <<>>
    /\ i' = 0
    /\ inflight' = {}
    /\ completed' = 0
    /\ completedGames' = <<>>
    /\ listRes' = Pending
    /\ detailRes' = <<>>
    /\ listResult' = Pending
    /\ results' = <<>>
    /\ fetches' = <<>>
    /\ cacheFailed' = FALSE
    /\ cacheWritten' = FALSE
    /\ batches' = 0
    /\ exported' = <<>>
    /\ UNCHANGED <<localStorage, now, extractVars, page>>
    /\ Render


(* Mutant of doneGames: the list is handed on without the filter on status. *)
doneGames_Unfiltered(gs) == gs

(* ExportButton: const doneGames = games.filter(g => g.status === 'done') *)
doneGames(gs) == SelectSeq(gs, LAMBDA g : g.status = "done")

(* exportToXlsx: const headers *)
xlsxHeaders ==
    <<"Game #", "Game Name", "Start Date", "Ticket Price", "Pack Size",
      "Guaranteed Total Prize Amount", "Pack Cost", "Max Loss (Guaranteed)",
      "Top Prize", "Top Prizes Remaining", "Total Tickets", "Overall Odds">>

(* exportToXlsx: one element of rows *)
xlsxRow(g) ==
    <<g.gameNumber, g.gameName, g.startDate, g.ticketPrice, g.packSize,
      g.guaranteedPrizeAmount, g.packCost, g.maxLoss, g.topPrize,
      g.topPrizesRemaining, g.totalTickets, g.overallOdds>>

(* exportToXlsx: const wsData = [headers, ...rows] *)
wsData(gs) == <<xlsxHeaders>> \o [k \in 1..Len(gs) |-> xlsxRow(gs[k])]

(* The Export button (disabled={disabled || doneGames.length === 0}, with
   disabled={isLoading} from App) calls handleExport, which returns on an empty
   list and calls exportToXlsx(doneGames) otherwise. *)
Export ==
    /\ pc # "mounting"
    /\ ~(isLoading \/ Len(doneGames(games)) = 0)
    /\ Len(doneGames(games)) # 0
    /\ exported' = <<[games |-> doneGames(games), sheet |-> wsData(doneGames(games))]>>
    /\ UNCHANGED <<extractVars, page, pc, appState, games, progress, errorMsg, lastUpdated,
                   localStorage, now, rendered, summaries, i, inflight, completed,
                   completedGames, listRes, detailRes, listResult, results, fetches,
                   cacheFailed, cacheWritten, batches>>

Next ==
    \/ Mount
    \/ Refresh
    \/ \E resp \in ListResponses(page) : ListingResponded(resp)
    \/ \E resp \in ListResponses(page) : ListingSettled(resp)
    \/ \E k \in inflight : \E resp \in DetailResponses(summaries[k].detailUrl) :
           DetailResponded(k, resp)
    \/ \E k \in inflight : \E resp \in DetailResponses(summaries[k].detailUrl) :
           DetailSettled(k, resp)
    \/ StartNextBatch
    \/ \E setItemThrows \in BOOLEAN : Finish(setItemThrows)
    \/ Tick
    \/ FilterChange
    \/ Reload
    \/ Export

Spec == Init /\ [][Next]_vars

(* The life of one loaded page: every step but a reload of the page. *)
RunNext ==
    \/ Mount
    \/ Refresh
    \/ \E resp \in ListResponses(page) : ListingResponded(resp)
    \/ \E resp \in ListResponses(page) : ListingSettled(resp)
    \/ \E k \in inflight : \E resp \in DetailResponses(summaries[k].detailUrl) :
           DetailResponded(k, resp)
    \/ \E k \in inflight : \E resp \in DetailResponses(summaries[k].detailUrl) :
           DetailSettled(k, resp)
    \/ StartNextBatch
    \/ \E setItemThrows \in BOOLEAN : Finish(setItemThrows)
    \/ Tick
    \/ FilterChange
    \/ Export

(* A step of a run that the event loop has ready: a response or a body that has
   arrived, or the code that follows an await that has resolved. *)
Resumes ==
    \/ \E resp \in ListResponses(page) : ListingResponded(resp)
    \/ \E resp \in ListResponses(page) : ListingSettled(resp)
    \/ \E k \in inflight : \E resp \in DetailResponses(summaries[k].detailUrl) :
           DetailResponded(k, resp)
    \/ \E k \in inflight : \E resp \in DetailResponses(summaries[k].detailUrl) :
           DetailSettled(k, resp)
    \/ StartNextBatch
    \/ \E setItemThrows \in BOOLEAN : Finish(setItemThrows)

(* Every issued fetch completes in the end, its body included, and the event loop
   runs the code that follows an await that has resolved: while a run has a step
   ready, one of its steps is taken in the end. *)
FairSpec ==
    /\ Init
    /\ [][RunNext]_vars
    /\ WF_vars(Resumes)


-----------------------------------------------------------------------------
(* Notions the properties share *)

(* A loadGames run of this page has reached its end with appState 'done'. *)
RunFinished == pc = "idle" /\ appState = "done" /\ listResult # Pending

(* The page shows a snapshot that the mount effect took from the cache. *)
ShowsCache == pc = "idle" /\ appState = "done" /\ listResult = Pending

(* The item of CACHE_KEY parses to a snapshot with games. *)
HoldsSnapshot ==
    /\ localStorage # <<>>
    /\ localStorage[1].json
    /\ "games" \in DOMAIN localStorage[1].value
    /\ Len(localStorage[1].value.games) > 0

(* The number of summaries the listing step of this run returned. *)
Listed == Len(listResult.body.value.games)

Terminal(game) == game.status = "done" \/ game.status = "error"

(* A detail fetch failed: no response, a non-2xx response, or a body that is no JSON. *)
Failed(resp) == resp.kind = "reject" \/ ~resp.ok \/ ~resp.body.json

-----------------------------------------------------------------------------
(* C1: after a run whose listing returned N summaries has reached 'done', the games
   collection holds exactly N records, each 'done' or 'error', none 'loading'. *)
C1_AllTerminalAfterRun ==
    RunFinished =>
        /\ Len(games) = Listed
        /\ \A k \in DOMAIN games : Terminal(games[k])

(* A finished run over more than one batch with resolved and failed records. *)
C1_Witness ==
    /\ RunFinished
    /\ Len(games) > BATCH_SIZE
    /\ \E k \in DOMAIN games : games[k].status = "done"
    /\ \E k \in DOMAIN games : games[k].status = "error"

(* C3: all detail fetches in flight belong to the current batch, the one started
   last, so none of the next batch is started while one of this batch is
   incomplete, and at most BATCH_SIZE are in flight. *)
C3_OneBatchInFlight ==
    /\ \A k \in inflight : i < k /\ k <= i + BATCH_SIZE
    /\ Cardinality(inflight) <= BATCH_SIZE
    /\ \A k \in DOMAIN fetches : k > i + BATCH_SIZE => fetches[k] = 0

(* The second batch is in flight, after a first batch of BATCH_SIZE fetches. *)
C3_Witness ==
    /\ pc = "detailing"
    /\ i = BATCH_SIZE
    /\ inflight # {}
    /\ completed = BATCH_SIZE

(* C9: every record with status 'done' in the games collection, merged by a run or
   loaded from the cache, has its derived fields computed from its own raw fields. *)
C9_DerivedFromRaw ==
    \A k \in DOMAIN games :
        games[k].status = "done" =>
            /\ games[k].packCost = games[k].ticketPrice * games[k].packSize
            /\ games[k].maxLoss = games[k].guaranteedPrizeAmount - games[k].packCost
            /\ games[k].topPrizesRemaining =
                   Max(0, games[k].topPrizeInGame - games[k].topPrizeClaimed)

(* A snapshot loaded from the cache holds a resolved record of a game with more top
   prizes claimed than in the game, and one with a positive pack cost. *)
C9_Witness ==
    /\ ShowsCache
    /\ \E k \in DOMAIN games :
           games[k].status = "done" /\ games[k].topPrizeClaimed > games[k].topPrizeInGame
    /\ \E k \in DOMAIN games : games[k].status = "done" /\ games[k].packCost > 0

(* The changes of appState the state machine idle -> fetching-list ->
   fetching-details -> done allows, with 'error' entered from 'fetching-list' and a
   new run leaving 'done' and 'error'. *)
RunStep(from, to) ==
    \/ from = to
    \/ from = "idle" /\ to = "fetching-list"
    \/ from = "fetching-list" /\ to = "fetching-details"
    \/ from = "fetching-list" /\ to = "error"
    \/ from = "fetching-details" /\ to = "done"
    \/ from = "done" /\ to = "fetching-list"
    \/ from = "error" /\ to = "fetching-list"

(* C4, as claimed: in a loaded page the application state changes only along the
   run's state machine; in particular 'done' is entered only from
   'fetching-details'. *)
C4_OnlyRunSteps == [][pc' # "mounting" => RunStep(appState, appState')]_vars

(* C4, amended: the application state changes only along the run's state machine,
   or from 'idle' to 'done' when the mount effect finds a cached snapshot with at
   least one record; on any other item, and on none, the mount effect leaves
   'idle'. *)
C4_RunStepsOrCacheLoad ==
    [][pc' # "mounting" =>
          \/ RunStep(appState, appState')
          \/ /\ pc = "mounting"
             /\ HoldsSnapshot
             /\ appState = "idle"
             /\ appState' = "done"]_vars

(* The page shows a cached snapshot: 'done' was entered by the mount effect. *)
C4_Witness == ShowsCache /\ games # <<>> /\ lastUpdated # Null

(* C5: when the listing fetch brought a non-success response or a listing of zero
   summaries, the run has ended in 'error' with the message of that error, the games
   collection is empty, no detail fetch was issued and the cache was not written. *)
C5_ListingFailureAbortsRun ==
    (/\ listResult # Pending
     /\ listResult.kind = "response"
     /\ \/ ~listResult.ok
        \/ /\ listResult.body.json
           /\ "games" \in DOMAIN listResult.body.value
           /\ Len(listResult.body.value.games) = 0)
    =>  /\ pc = "idle"
        /\ appState = "error"
        /\ errorMsg = IF listResult.ok
                      THEN "No games returned from list page"
                      ELSE "List fetch failed: " \o ToString(listResult.status)
        /\ games = <<>>
        /\ inflight = {}
        /\ fetches = <<>>
        /\ ~cacheWritten

(* A run over a listing of zero summaries has ended in 'error' in a page that showed
   a cached snapshot before, and the cache still holds that snapshot. *)
C5_Witness ==
    /\ appState = "error"
    /\ errorMsg = "No games returned from list page"
    /\ lastUpdated # Null
    /\ localStorage # <<>>

(* A run over a non-success listing response has ended in 'error'. *)
C5_WitnessNonSuccess ==
    /\ appState = "error"
    /\ errorMsg = "List fetch failed: 500"
    /\ lastUpdated # Null

(* C10: when writing the snapshot throws, the run still reaches 'done', the records
   in memory are unchanged and lastUpdated is not advanced. *)
C10_CacheFailureIsCaught ==
    [][(cacheFailed' /\ ~cacheFailed) =>
          /\ appState' = "done"
          /\ pc' = "idle"
          /\ games' = games
          /\ lastUpdated' = lastUpdated
          /\ localStorage' = localStorage]_vars

(* A run whose cache write threw is done, with resolved records in memory and
   lastUpdated still unset. *)
C10_Witness ==
    /\ RunFinished
    /\ cacheFailed
    /\ lastUpdated = Null
    /\ \E k \in DOMAIN games : games[k].status = "done"

(* The identifiers of the listing are pairwise different. *)
UniqueIdentifiers ==
    \A j, k \in DOMAIN summaries :
        j # k => summaries[j].gameNumber # summaries[k].gameNumber

(* The record of item k is what its own fetch brought: the error record with the
   defaults and a message when the fetch failed, the computed record otherwise. *)
OwnRecord(k) ==
    IF Failed(results[k])
    THEN /\ games[k].status = "error"
         /\ games[k].errorMessage # ""
         /\ games[k] = errorGame(summaries[k], games[k].errorMessage)
    ELSE games[k] = computeFields(summaries[k], results[k].body.value)

(* C2: whatever items fail, each settled item's record is what its own fetch
   brought (a failed item's is the 'error' record with the defaults and a message,
   every other's is merged as if no item had failed), and the run ends in 'done'. *)
C2_FailureIsolated ==
    results # <<>> =>
        /\ \A k \in DOMAIN results : results[k] # Pending => OwnRecord(k)
        /\ pc = "idle" => appState = "done"

(* C2 holds of the listings whose identifiers are unique. *)
C2_WhenIdentifiersUnique == UniqueIdentifiers => C2_FailureIsolated

(* C6: within a run, a record that is 'done' or 'error' never changes again, and
   the detail of each summary is fetched at most once. *)
C6_TerminalIsFinal ==
    /\ [](\A k \in DOMAIN fetches : fetches[k] <= 1)
    /\ [][(pc = "detailing" /\ pc' # "mounting") =>
             \A k \in DOMAIN games : Terminal(games[k]) => games'[k] = games[k]]_vars

(* C6 holds of the listings whose identifiers are unique. *)
C6_WhenIdentifiersUnique ==
    /\ [](\A k \in DOMAIN fetches : fetches[k] <= 1)
    /\ [][(pc = "detailing" /\ pc' # "mounting" /\ UniqueIdentifiers) =>
             \A k \in DOMAIN games : Terminal(games[k]) => games'[k] = games[k]]_vars

(* The games collection after the results of the first n items are merged in the
   listing's order. *)
RECURSIVE mergedInOrder(_)
mergedInOrder(n) ==
    IF n = 0 THEN initGames(summaries)
    ELSE mergeGame(mergedInOrder(n - 1), summaries[n].gameNumber,
                   fetchDetail(summaries[n], results[n]))

(* C7: the final games collection does not depend on the order in which the fetches
   completed: it is the one the completions in the listing's order produce. *)
C7_OrderIndependent == RunFinished => games = mergedInOrder(Len(summaries))

(* C7 holds of the listings whose identifiers are unique. *)
C7_WhenIdentifiersUnique == UniqueIdentifiers => C7_OrderIndependent

(* C8: the completion of item k changes no record but the one of item k, and
   neither the length nor the order of the collection. *)
C8_OnlyOwnRecord ==
    [][\A k \in inflight :
          (pc = "detailing" /\ pc' = "detailing" /\ inflight' = inflight \ {k}) =>
              /\ Len(games') = Len(games)
              /\ \A j \in DOMAIN games : j # k => games'[j] = games[j]]_vars

(* C8 holds of the listings whose identifiers are unique. *)
C8_WhenIdentifiersUnique ==
    [][\A k \in inflight :
          (/\ pc = "detailing" /\ pc' = "detailing" /\ inflight' = inflight \ {k}
           /\ UniqueIdentifiers) =>
              /\ Len(games') = Len(games)
              /\ games'[k] # games[k]
              /\ \A j \in DOMAIN games : j # k => games'[j] = games[j]]_vars

-----------------------------------------------------------------------------
(* C11: at most one loadGames run is in flight. The Refresh button is disabled
   exactly while a run is in flight, a run starts only when no fetch of an earlier
   run is pending, and every fetch whose completion is still to be applied was
   issued by the current run and has not been applied before. *)
C11_OneRunInFlight ==
    /\ [](isLoading <=> pc \in {"listing", "detailing"})
    /\ [](\A k \in inflight :
            k \in DOMAIN fetches /\ fetches[k] = 1 /\ results[k] = Pending)
    /\ [][(/\ appState' = "fetching-list" /\ pc' = "listing"
           /\ listRes' = Pending /\ now' = now) =>
             \/ UNCHANGED vars
             \/ /\ pc = "idle"
                /\ appState \in {"idle", "done", "error"}
                /\ inflight = {}]_vars

(* A second run of the page is in flight, after a first one that ran to its end
   and wrote the cache, and part of its completions are applied. *)
C11_Witness ==
    /\ pc = "detailing"
    /\ lastUpdated # Null
    /\ inflight # {}
    /\ completed > 0

(* The smallest integer that is at least n / d. *)
Ceil(n, d) == (n + d - 1) \div d

(* C12: when every issued fetch completes, a run that was started reaches 'done' or
   'error', and a run that is done over a listing of N summaries has started
   exactly ceil(N / BATCH_SIZE) batches. *)
C12_RunTerminates ==
    /\ isLoading ~> (appState = "done" \/ appState = "error")
    /\ [](RunFinished => batches = Ceil(Listed, BATCH_SIZE))

(* A run over more summaries than one batch holds is done after two batches. *)
C12_Witness == RunFinished /\ Listed = BATCH_SIZE + 1 /\ batches = 2

(* C13: exportToXlsx is called with a list that is not empty and holds only records
   of status 'done', and each row of the sheet after the header lists the record's
   identifier, name, start date, price, pack size, guaranteed amount, pack cost,
   max loss, top prize, top prizes remaining, total tickets and overall odds, in
   that order. *)
C13_ExportsOnlyDone ==
    exported # <<>> =>
        LET gs == exported[1].games
            sheet == exported[1].sheet
        IN  /\ Len(gs) > 0
            /\ Len(sheet) = Len(gs) + 1
            /\ \A k \in DOMAIN gs :
                   /\ gs[k].status = "done"
                   /\ Len(sheet[k + 1]) = 12
                   /\ sheet[k + 1][1] = gs[k].gameNumber
                   /\ sheet[k + 1][2] = gs[k].gameName
                   /\ sheet[k + 1][3] = gs[k].startDate
                   /\ sheet[k + 1][4] = gs[k].ticketPrice
                   /\ sheet[k + 1][5] = gs[k].packSize
                   /\ sheet[k + 1][6] = gs[k].guaranteedPrizeAmount
                   /\ sheet[k + 1][7] = gs[k].packCost
                   /\ sheet[k + 1][8] = gs[k].maxLoss
                   /\ sheet[k + 1][9] = gs[k].topPrize
                   /\ sheet[k + 1][10] = gs[k].topPrizesRemaining
                   /\ sheet[k + 1][11] = gs[k].totalTickets
                   /\ sheet[k + 1][12] = gs[k].overallOdds

(* An export from a collection that holds a failed record beside resolved ones: the
   exported list is shorter than the collection. *)
C13_Witness ==
    /\ exported # <<>>
    /\ \E k \in DOMAIN games : games[k].status = "error"
    /\ Len(exported[1].games) < Len(games)

-----------------------------------------------------------------------------
(* Text. A string is the sequence of its characters. *)

(* The characters of a string constant, in their order. *)
Chars(string) == [k \in 1..Len(string) |-> SubSeq(string, k, k)]

Digits == {"0", "1", "2", "3", "4", "5", "6", "7", "8", "9"}

DigitValue(c) == CHOOSE v \in 0..9 : ToString(v) = c

(* The characters \s matches and trim() removes, as far as the texts here hold them. *)
Space == {" ", "\t", "\n"}

UpperCase == <<"A", "B", "C", "D", "E", "F", "G", "H", "I", "J", "K", "L", "M",
               "N", "O", "P", "Q", "R", "S", "T", "U", "V", "W", "X", "Y", "Z">>

LowerCase == <<"a", "b", "c", "d", "e", "f", "g", "h", "i", "j", "k", "l", "m",
               "n", "o", "p", "q", "r", "s", "t", "u", "v", "w", "x", "y", "z">>

(* One character of String.prototype.toLowerCase() *)
Lower(c) ==
    IF \E k \in 1..26 : UpperCase[k] = c
    THEN LowerCase[CHOOSE k \in 1..26 : UpperCase[k] = c]
    ELSE c

(* String.prototype.toLowerCase() *)
toLowerCase(s) == [k \in 1..Len(s) |-> Lower(s[k])]

(* The length of the longest run of characters of class that starts at position p
   of s: what a greedy class+ or class* of a regular expression takes there. *)
Run(s, p, class) ==
    LET q == CHOOSE q \in p..(Len(s) + 1) :
                 /\ \A r \in p..(q - 1) : s[r] \in class
                 /\ q = Len(s) + 1 \/ s[q] \notin class
    IN  q - p

(* String.prototype.trim() *)
trim(s) ==
    IF \A k \in 1..Len(s) : s[k] \in Space THEN <<>>
    ELSE LET first == CHOOSE k \in 1..Len(s) :
                          s[k] \notin Space /\ \A j \in 1..(k - 1) : s[j] \in Space
             last == CHOOSE k \in 1..Len(s) :
                         s[k] \notin Space /\ \A j \in (k + 1)..Len(s) : s[j] \in Space
         IN  SubSeq(s, first, last)

(* str.replace(/[^...]/g, ''): the characters of keep, in their order *)
replace(s, keep) == SelectSeq(s, LAMBDA c : c \in keep)

RECURSIVE Pow10(_)
Pow10(n) == IF n = 0 THEN 1 ELSE 10 * Pow10(n - 1)

(* The number a string of digits writes in base ten (0 for the empty string). *)
RECURSIVE DecValue(_)
DecValue(ds) ==
    IF ds = <<>> THEN 0
    ELSE DecValue(SubSeq(ds, 1, Len(ds) - 1)) * 10 + DigitValue(ds[Len(ds)])

(* parseInt(s, 10) of a string of digits: <<>> for NaN, <<n>> for the number n *)
parseInt(s) ==
    LET n == Run(s, 1, Digits)
    IN  IF n = 0 THEN <<>> ELSE <<DecValue(SubSeq(s, 1, n))>>

(* parseFloat(s) of a string of digits and points: the longest prefix that is a
   decimal literal (digits, digits., digits.digits or .digits); <<>> for NaN, <<x>>
   for the number x, which is kept as an exact fraction. *)
parseFloat(s) ==
    LET n1 == Run(s, 1, Digits)
        point == n1 + 1 <= Len(s) /\ s[n1 + 1] = "."
        n2 == IF point THEN Run(s, n1 + 2, Digits) ELSE 0
    IN  IF n1 = 0 /\ n2 = 0 THEN <<>>
        ELSE <<Fraction(DecValue(SubSeq(s, 1, n1)) * Pow10(n2)
                            + DecValue(SubSeq(s, n1 + 2, n1 + 1 + n2)),
                        Pow10(n2))>>

-----------------------------------------------------------------------------
(* The text normalizers of get-game-detail.js *)

NA == Chars("N/A")

(* function parseDollar(str) *)
parseDollar(s) ==
    IF s = <<>> THEN <<0, 1>>
    ELSE LET x == parseFloat(replace(s, Digits \cup {"."}))
         IN  IF x = <<>> THEN <<0, 1>> ELSE x[1]

(* Mutant of parseNum: parseInt(str, 10) without the replace, which stops at the
   first character that is no digit. *)
parseNum_NoReplace(s) ==
    IF s = <<>> THEN 0
    ELSE LET n == parseInt(s)
         IN  IF n = <<>> THEN 0 ELSE n[1]

(* function parseNum(str) *)
parseNum(s) ==
    IF s = <<>> THEN 0
    ELSE LET n == parseInt(replace(s, Digits))
         IN  IF n = <<>> THEN 0 ELSE n[1]

(* s matches /1\s+in\s+[\d,.]+/i at position p: the position after the match, 0
   when there is no match at p. *)
oddsMatchAt(s, p) ==
    IF p > Len(s) \/ s[p] # "1" THEN 0
    ELSE LET w1 == Run(s, p + 1, Space)
             q == p + 1 + w1
         IN  IF w1 = 0 \/ q + 1 > Len(s) \/ Lower(s[q]) # "i" \/ Lower(s[q + 1]) # "n"
             THEN 0
             ELSE LET w2 == Run(s, q + 2, Space)
                      r == q + 2 + w2
                      n == Run(s, r, Digits \cup {",", "."})
                  IN  IF w2 = 0 \/ n = 0 THEN 0 ELSE r + n

(* str.match(/1\s+in\s+[\d,.]+/i): <<>> for null, otherwise <<match[0]>>, the
   leftmost match *)
oddsMatch(s) ==
    LET starts == {p \in 1..Len(s) : oddsMatchAt(s, p) # 0}
    IN  IF starts = {} THEN <<>>
        ELSE LET p == CHOOSE p \in starts : \A q \in starts : p <= q
             IN  <<SubSeq(s, p, oddsMatchAt(s, p) - 1)>>

(* function parseOdds(str) *)
parseOdds(s) ==
    IF s = <<>> THEN NA
    ELSE LET match == oddsMatch(s)
         IN  IF match # <<>> THEN trim(match[1]) ELSE trim(s)

-----------------------------------------------------------------------------
(* One call of a normalizer on a text *)

MaxTokens == 5

(* The pieces the texts are made of. *)
Tokens ==
    {<<"1">>, <<"4">>, <<".">>, <<",">>, <<" ">>, Chars("In"), Chars("1 in")}

RECURSIVE Flatten(_)
Flatten(ts) == IF ts = <<>> THEN <<>> ELSE Head(ts) \o Flatten(Tail(ts))

OddsSentence == Chars("Overall odds of winning are 1 in 4.33.")

MillionDollars == Chars("$1,000,000")

TicketCount == Chars("1,234,567 tickets")

(* The texts a normalizer is called with: the sequences of up to MaxTokens pieces,
   and the texts the descriptions of the normalizers give as examples. *)
Texts ==
    {Flatten(ts) : ts \in SeqsUpTo(Tokens, MaxTokens)}
        \cup {OddsSentence, MillionDollars, TicketCount, NA}

notNormVars == <<appVars, listVars, detailVars>>

NormInit ==
    /\ AppOff
    /\ ListIdle
    /\ DetailIdle
    /\ str \in Texts
    /\ called = "none"
    /\ returned = 0

ParseDollar ==
    /\ called = "none"
    /\ called' = "parseDollar"
    /\ returned' = parseDollar(str)
    /\ UNCHANGED <<str, notNormVars>>

ParseNum ==
    /\ called = "none"
    /\ called' = "parseNum"
    /\ returned' = parseNum(str)
    /\ UNCHANGED <<str, notNormVars>>

ParseOdds ==
    /\ called = "none"
    /\ called' = "parseOdds"
    /\ returned' = parseOdds(str)
    /\ UNCHANGED <<str, notNormVars>>

NormNext == ParseDollar \/ ParseNum \/ ParseOdds

NormSpec == NormInit /\ [][NormNext]_vars

-----------------------------------------------------------------------------
(* s holds, from position p to position e, a phrase '1 in <number>': the digit 1,
   white space, the word in (in either case), white space, and a number made of
   digits, commas and points that ends with a digit. *)
IsOddsPhrase(s, p, e) ==
    /\ s[p] = "1"
    /\ \E a \in (p + 2)..(e - 3) : \E b \in (a + 3)..e :
           /\ \A k \in (p + 1)..(a - 1) : s[k] \in Space
           /\ Lower(s[a]) = "i"
           /\ Lower(s[a + 1]) = "n"
           /\ \A k \in (a + 2)..(b - 1) : s[k] \in Space
           /\ \A k \in b..e : s[k] \in Digits \cup {",", "."}
    /\ s[e] \in Digits

(* What the claim says parseOdds returns: 'N/A' for the empty text, the first
   phrase '1 in <number>' with its whole number when the text holds one, the
   trimmed text otherwise. *)
ClaimedOdds(s) ==
    LET phrases == {pe \in (1..Len(s)) \X (1..Len(s)) : IsOddsPhrase(s, pe[1], pe[2])}
    IN  IF s = <<>> THEN NA
        ELSE IF phrases = {} THEN trim(s)
        ELSE LET pe == CHOOSE pe \in phrases :
                           \A other \in phrases :
                               \/ pe[1] < other[1]
                               \/ pe[1] = other[1] /\ pe[2] >= other[2]
             IN  SubSeq(s, pe[1], pe[2])

(* C14: parseOdds returns 'N/A' for the empty text, exactly the phrase
   '1 in <number>' for a text that holds one (so "1 in 4.33" for "Overall odds of
   winning are 1 in 4.33."), and the trimmed text for any other text. *)
C14_ParseOddsPhrase ==
    called = "parseOdds" =>
        /\ returned = ClaimedOdds(str)
        /\ str = OddsSentence => returned = Chars("1 in 4.33")

(* C14 holds of the texts in which no comma or point follows the number of the
   phrase. *)
C14_UnlessPunctuationFollows ==
    (/\ called = "parseOdds"
     /\ \A m \in {oddsMatch(str)} : m # <<>> => m[1][Len(m[1])] \in Digits)
    => returned = ClaimedOdds(str)

(* The integer written by the digits of s, taken in order, after the digits of
   acc; every other character is passed over. *)
RECURSIVE ReadCount(_, _)
ReadCount(s, acc) ==
    IF s = <<>> THEN acc
    ELSE ReadCount(Tail(s), IF Head(s) \in Digits
                            THEN acc * 10 + DigitValue(Head(s))
                            ELSE acc)

(* The number written by the digits and points of s, every other character passed
   over: num / den is the number read so far, points the number of points read.
   With stopAt = 2 the reading ends at the second point; with a stopAt that no
   text reaches, every digit of the text is read and the first point is the
   decimal point. *)
RECURSIVE ReadAmount(_, _, _, _, _)
ReadAmount(s, num, den, points, stopAt) ==
    IF s = <<>> \/ points >= stopAt THEN Fraction(num, den)
    ELSE IF Head(s) = "." THEN ReadAmount(Tail(s), num, den, points + 1, stopAt)
    ELSE IF Head(s) \in Digits
         THEN ReadAmount(Tail(s), num * 10 + DigitValue(Head(s)),
                         IF points = 0 THEN den ELSE den * 10, points, stopAt)
    ELSE ReadAmount(Tail(s), num, den, points, stopAt)

(* C15, as claimed: parseNum returns the integer written by the digits of the text,
   parseDollar the number written by its digits and its decimal point; both return
   0 for the empty text and for a text without digits. *)
C15_ReadsEveryDigit ==
    /\ called = "parseNum" => returned = ReadCount(str, 0)
    /\ called = "parseDollar" => returned = ReadAmount(str, 0, 1, 0, Len(str) + 1)

(* C15, amended: parseNum returns the integer written by the digits of the text,
   parseDollar the number written by its digits and its decimal point up to a
   second point, where its reading ends; both return 0 for the empty text and for a
   text without digits. *)
C15_ReadsUpToSecondPoint ==
    /\ called = "parseNum" =>
           /\ returned = ReadCount(str, 0)
           /\ replace(str, Digits) = <<>> => returned = 0
           /\ str = TicketCount => returned = 1234567
    /\ called = "parseDollar" =>
           /\ returned = ReadAmount(str, 0, 1, 0, 2)
           /\ replace(str, Digits) = <<>> => returned = <<0, 1>>
           /\ str = MillionDollars => returned = <<1000000, 1>>
           /\ str = NA => returned = <<0, 1>>

(* parseDollar has read 1.4 from a text with two points and digits on both sides
   of the second. *)
C15_Witness ==
    /\ called = "parseDollar"
    /\ str = Chars("1.4.1")
    /\ returned = <<7, 5>>

-----------------------------------------------------------------------------
(* The listing functions: get-games.js, and the revised listing handler *)

(* String.prototype.startsWith *)
startsWith(s, prefix) == Len(s) >= Len(prefix) /\ SubSeq(s, 1, Len(prefix)) = prefix

(* String.prototype.includes *)
includes(s, sub) == \E k \in 1..(Len(s) - Len(sub) + 1) : SubSeq(s, k, k + Len(sub) - 1) = sub

(* const BASE_URL, as text *)
BaseUrlText == Chars("https://www.texaslottery.com")

(* A cell of a table row: its text, and with link = <<a>> a hyperlink a in it, of
   target a.href and text a.text. *)
Cell(text) == [text |-> text, link |-> <<>>]

LinkCell(href, text) == [text |-> text, link |-> <<[href |-> href, text |-> text]>>]

(* parseFloat(raw.replace(/[^0-9.]/g, '')) || 0 *)
ticketPriceOf(raw) ==
    LET x == parseFloat(replace(raw, Digits \cup {"."}))
    IN  IF x = <<>> THEN <<0, 1>> ELSE x[1]

(* get-games.js, the primary scan: what one row pushes, <<>> when it pushes nothing *)
primaryRow(cells) ==
    IF Len(cells) < 4 THEN <<>>
    ELSE LET link == cells[1].link
             gameNumber == IF link # <<>> /\ trim(link[1].text) # <<>>
                           THEN trim(link[1].text) ELSE trim(cells[1].text)
         IN  IF gameNumber = <<>> \/ link = <<>> \/ link[1].href = <<>> THEN <<>>
             ELSE LET href == link[1].href
                      detailUrl == IF startsWith(href, Chars("http")) THEN href
                                   ELSE BaseUrlText
                                        \o (IF startsWith(href, <<"/">>) THEN <<>> ELSE <<"/">>)
                                        \o href
                      gameName == trim(cells[2].text)
                  IN  IF gameName = <<>> THEN <<>>
                      ELSE <<[gameNumber |-> gameNumber,
                              gameName |-> gameName,
                              startDate |-> trim(cells[3].text),
                              ticketPrice |-> ticketPriceOf(trim(cells[4].text)),
                              detailUrl |-> detailUrl]>>

(* get-games.js, the fallback scan: what one row pushes *)
fallbackRow(cells) ==
    IF Len(cells) < 4 THEN <<>>
    ELSE LET link == cells[1].link
         IN  IF link = <<>> \/ link[1].href = <<>>
                 \/ ~includes(link[1].href, Chars("gamedetail"))
             THEN <<>>
             ELSE LET href == link[1].href
                      gameNumber == trim(link[1].text)
                  IN  IF gameNumber = <<>> THEN <<>>
                      ELSE <<[gameNumber |-> gameNumber,
                              gameName |-> trim(cells[2].text),
                              startDate |-> trim(cells[3].text),
                              ticketPrice |-> ticketPriceOf(cells[4].text),
                              detailUrl |-> IF startsWith(href, Chars("http"))
                                            THEN href ELSE BaseUrlText \o href]>>

(* A row of a table of the listing page: the section of the table it stands in
   ("thead", "tbody" or "tfoot") and its cells. *)
Tr(section, cells) == [section |-> section, cells |-> cells]

(* $(selector) on the listing page, for the selectors of the listing functions:
   the rows selected, in document order. The parser puts a tr that stands directly
   in a table into a tbody, and leaves a tr of a thead or a tfoot where it is. *)
select(html, selector) ==
    IF selector = "table tbody tr"
    THEN SelectSeq(html, LAMBDA row : row.section = "tbody")
    ELSE html

(* get-games.js: the games of its answer for the page html *)
getGames(html) ==
    LET rows1 == select(html, "table tbody tr")
        games1 == Flatten([k \in 1..Len(rows1) |-> primaryRow(rows1[k].cells)])
        rows2 == select(html, "tr")
    IN  IF Len(games1) = 0
        THEN Flatten([k \in 1..Len(rows2) |-> fallbackRow(rows2[k].cells)])
        ELSE games1

(* The revised listing handler: its scan from row k on, with the games pushed and
   the game numbers seen so far *)
RECURSIVE revisedScan(_, _, _, _)
revisedScan(rows, k, pushed, seenGameNumbers) ==
    IF k > Len(rows) THEN pushed
    ELSE LET cells == rows[k].cells
             link == IF Len(cells) > 0 THEN cells[1].link ELSE <<>>
         IN  IF Len(cells) < 5 \/ link = <<>> \/ link[1].href = <<>>
                 \/ ~includes(link[1].href, Chars("details.html"))
             THEN revisedScan(rows, k + 1, pushed, seenGameNumbers)
             ELSE LET href == link[1].href
                      gameNumber == trim(link[1].text)
                      detailUrl == IF startsWith(href, Chars("http")) THEN href
                                   ELSE BaseUrlText
                                        \o (IF startsWith(href, <<"/">>) THEN <<>> ELSE <<"/">>)
                                        \o href
                      gameName == trim(cells[5].text)
                  IN  IF gameNumber \in seenGameNumbers
                      THEN revisedScan(rows, k + 1, pushed, seenGameNumbers)
                      ELSE IF gameNumber # <<>> /\ gameName # <<>> /\ gameName # <<"*">>
                      THEN revisedScan(rows, k + 1,
                               Append(pushed,
                                      [gameNumber |-> gameNumber,
                                       gameName |-> gameName,
                                       startDate |-> trim(cells[2].text),
                                       ticketPrice |-> ticketPriceOf(trim(cells[3].text)),
                                       detailUrl |-> detailUrl]),
                               seenGameNumbers \cup {gameNumber})
                      ELSE revisedScan(rows, k + 1, pushed, seenGameNumbers \cup {gameNumber})

(* The revised listing handler: the games of its answer for the page html *)
getGamesRevised(html) == revisedScan(select(html, "table tr"), 1, <<>>, {})

-----------------------------------------------------------------------------
(* One invocation of a listing function on a listing page *)

MaxRows == 3

Href2501 == Chars("/Games/details.html_2501.html")

Href2502 == Chars("https://www.texaslottery.com/Games/details.html_2502.html")

HrefNews == Chars("/News/jackpot.pdf")

HrefOld == Chars("gamedetail.html?id=2503")

N2501 == Chars("2501")

N2502 == Chars("2502")

N2503 == Chars("2503")

(* The cells of the rows of the listing pages: game rows in the layout of five
   columns (game number, start date, price, an empty column, name) and in the
   layout of four (game number, name, start date, price), a prize-tier row that
   repeats the link of its game, rows without a name, a decorative row without a
   link, a row that is too short, a row whose link leads elsewhere, and a row with
   a link of the older naming. *)
ListingCells ==
    {<<LinkCell(Href2501, N2501), Cell(Chars("01/06/25")), Cell(Chars("$5")),
       Cell(<<>>), Cell(Chars(" Game 1 "))>>,
     <<LinkCell(Href2501, N2501), Cell(Chars("Tier")), Cell(Chars("$1,000")),
       Cell(<<>>), Cell(Chars("Tier"))>>,
     <<LinkCell(Href2501, N2501), Cell(<<>>), Cell(<<>>), Cell(<<>>), Cell(<<"*">>)>>,
     <<LinkCell(Href2502, Chars(" 2502 ")), Cell(Chars("Game 2")),
       Cell(Chars("02/03/25")), Cell(Chars("$10.50"))>>,
     <<Cell(Chars("Game")), Cell(Chars(" Game 1 ")), Cell(Chars("01/06/25")),
       Cell(<<>>), Cell(Chars("Game"))>>,
     <<LinkCell(Href2502, N2502), Cell(Chars("Game 2")), Cell(Chars("02/03/25"))>>,
     <<LinkCell(HrefNews, Chars("News")), Cell(Chars("News")), Cell(<<>>), Cell(<<>>),
       Cell(Chars("News"))>>,
     <<LinkCell(HrefOld, N2503), Cell(<<>>), Cell(Chars("02/03/25")),
       Cell(Chars("$10.50"))>>}

(* The rows of the listing pages: every row of ListingCells in the body of a
   table, and in the head of a table a game row of five columns and a named row
   with a link of the older naming. *)
ListingRows ==
    {Tr("tbody", cells) : cells \in ListingCells}
    \cup {Tr("thead", <<LinkCell(Href2501, N2501), Cell(Chars("01/06/25")),
                        Cell(Chars("$5")), Cell(<<>>), Cell(Chars(" Game 1 "))>>),
          Tr("thead", <<LinkCell(HrefOld, N2503), Cell(Chars("Game 3")),
                        Cell(Chars("02/03/25")), Cell(Chars("$10.50"))>>)}

(* The listing pages: the rows of their tables in document order. The parser
   keeps no tr outside a table, so 'table tr' and 'tr' select the same rows. *)
ListingPages == SeqsUpTo(ListingRows, MaxRows)

notListVars == <<appVars, normVars, detailVars>>

ListInit ==
    /\ AppOff
    /\ NormIdle
    /\ DetailIdle
    /\ listHtml \in ListingPages
    /\ listHandler = "none"
    /\ listGames = <<>>

(* exports.handler of get-games.js, with the page fetched *)
GetGames ==
    /\ listHandler = "none"
    /\ listHandler' = "get-games"
    /\ listGames' = getGames(listHtml)
    /\ UNCHANGED <<listHtml, notListVars>>

(* exports.handler of the revised listing function, with the page fetched *)
GetGamesRevised ==
    /\ listHandler = "none"
    /\ listHandler' = "get-games-revised"
    /\ listGames' = getGamesRevised(listHtml)
    /\ UNCHANGED <<listHtml, notListVars>>

ListNext == GetGames \/ GetGamesRevised

ListSpec == ListInit /\ [][ListNext]_vars

-----------------------------------------------------------------------------
(* The first cell of the row holds a hyperlink. *)
HasLink(cells) == Len(cells) > 0 /\ cells[1].link # <<>>

(* The identifier a row with a hyperlink carries: the text of the link. *)
Identifier(cells) == trim(cells[1].link[1].text)

(* The target of the row's link is named as a detail page is, in the naming of
   either listing function. *)
NamedAsDetailPage(cells) ==
    \/ includes(cells[1].link[1].href, Chars("details.html"))
    \/ includes(cells[1].link[1].href, Chars("gamedetail"))

(* The summary g is built from this row: it carries the row's identifier, its
   name and its start date are texts of cells of the row, and its reference is the
   target of the row's link, made absolute. *)
BuiltFrom(g, cells) ==
    /\ HasLink(cells)
    /\ g.gameNumber = Identifier(cells)
    /\ \E k \in 1..Len(cells) : g.gameName = trim(cells[k].text)
    /\ \E k \in 1..Len(cells) : g.startDate = trim(cells[k].text)
    /\ \E prefix \in {<<>>, BaseUrlText, BaseUrlText \o <<"/">>} :
           g.detailUrl = prefix \o cells[1].link[1].href

(* The strictly increasing maps from the summaries to the rows. *)
InOrder(gs, rows) ==
    {idx \in [1..Len(gs) -> 1..Len(rows)] :
        \A j, k \in 1..Len(gs) : j < k => idx[j] < idx[k]}

(* C16: the output of a listing function holds no two summaries with the same
   identifier; each summary is built from the first row of the page that carries
   its identifier, and the summaries are in the document order of their rows. *)
C16_FirstRowWins ==
    listHandler # "none" =>
        /\ \A j, k \in 1..Len(listGames) :
               j # k => listGames[j].gameNumber # listGames[k].gameNumber
        /\ \E idx \in InOrder(listGames, listHtml) :
               \A k \in 1..Len(listGames) :
                   /\ BuiltFrom(listGames[k], listHtml[idx[k]].cells)
                   /\ \A j \in 1..(idx[k] - 1) :
                          HasLink(listHtml[j].cells) =>
                              Identifier(listHtml[j].cells) # listGames[k].gameNumber

(* C16 holds of the revised listing handler, which keeps the game numbers it has
   seen. *)
C16_RevisedHandler ==
    listHandler = "get-games-revised" =>
        /\ \A j, k \in 1..Len(listGames) :
               j # k => listGames[j].gameNumber # listGames[k].gameNumber
        /\ \E idx \in InOrder(listGames, listHtml) :
               \A k \in 1..Len(listGames) :
                   /\ BuiltFrom(listGames[k], listHtml[idx[k]].cells)
                   /\ \A j \in 1..(idx[k] - 1) :
                          HasLink(listHtml[j].cells) =>
                              Identifier(listHtml[j].cells) # listGames[k].gameNumber

(* C17: every summary of the output comes from a row of its own whose first cell
   holds a hyperlink to a page named as a detail page is, and has an identifier and
   a name that are not empty and an absolute reference; every other row is passed
   over. *)
C17_OnlyGameRows ==
    listHandler # "none" =>
        \E idx \in InOrder(listGames, listHtml) :
            \A k \in 1..Len(listGames) :
                /\ BuiltFrom(listGames[k], listHtml[idx[k]].cells)
                /\ NamedAsDetailPage(listHtml[idx[k]].cells)
                /\ listGames[k].gameNumber # <<>>
                /\ listGames[k].gameName # <<>>
                /\ startsWith(listGames[k].detailUrl, Chars("http"))

(* C17 holds of the revised listing handler, which tests the target of the link
   and the name of every row. *)
C17_RevisedHandler ==
    listHandler = "get-games-revised" =>
        \E idx \in InOrder(listGames, listHtml) :
            \A k \in 1..Len(listGames) :
                /\ BuiltFrom(listGames[k], listHtml[idx[k]].cells)
                /\ NamedAsDetailPage(listHtml[idx[k]].cells)
                /\ listGames[k].gameNumber # <<>>
                /\ listGames[k].gameName # <<>>
                /\ startsWith(listGames[k].detailUrl, Chars("http"))

-----------------------------------------------------------------------------
(* The detail functions: the scalar fields of get-game-detail.js, in its handler
   with Method 1 and Method 2 and in its revised handler with full-text patterns *)

(* The text s holds the lower-case literal lit at position p, in either case: how
   a pattern with the i flag matches a literal, and includes on the lowered text. *)
literalAt(s, p, lit) ==
    /\ p + Len(lit) - 1 <= Len(s)
    /\ \A k \in 1..Len(lit) : Lower(s[p + k - 1]) = lit[k]

MinOf(S) == CHOOSE x \in S : \A y \in S : x <= y

(* The first capture group of the leftmost match: groupAt(p) is <<>> when the
   pattern does not match at p and <<group>> when it does. *)
leftmost(s, groupAt(_)) ==
    LET starts == {p \in 1..Len(s) : groupAt(p) # <<>>}
    IN  IF starts = {} THEN <<>> ELSE groupAt(MinOf(starts))

(* fullText.match(/There are approximately\s+([\d,]+)\*?\s+tickets/i) *)
ticketMatch(s) ==
    LET lit == Chars("there are approximately")
        tickets == Chars("tickets")
        groupAt(p) ==
            IF ~literalAt(s, p, lit) THEN <<>>
            ELSE LET a == p + Len(lit)
                     w1 == Run(s, a, Space)
                     n == Run(s, a + w1, Digits \cup {","})
                     c == a + w1 + n
                     e == IF c <= Len(s) /\ s[c] = "*" THEN c + 1 ELSE c
                     w2 == Run(s, e, Space)
                 IN  IF w1 >= 1 /\ n >= 1 /\ w2 >= 1 /\ literalAt(s, e + w2, tickets)
                     THEN <<SubSeq(s, a + w1, c - 1)>> ELSE <<>>
    IN  leftmost(s, groupAt)

(* fullText.match(/Guaranteed Total Prize Amount\s*=\s*\$?([\d,]+)/i) *)
guaranteedMatch(s) ==
    LET lit == Chars("guaranteed total prize amount")
        groupAt(p) ==
            IF ~literalAt(s, p, lit) THEN <<>>
            ELSE LET a == p + Len(lit) + Run(s, p + Len(lit), Space)
                     b == a + 1 + Run(s, a + 1, Space)
                     c == IF b <= Len(s) /\ s[b] = "$" THEN b + 1 ELSE b
                     n == Run(s, c, Digits \cup {","})
                 IN  IF a <= Len(s) /\ s[a] = "=" /\ n >= 1
                     THEN <<SubSeq(s, c, c + n - 1)>> ELSE <<>>
    IN  leftmost(s, groupAt)

(* fullText.match(/Pack Size:\s*([\d,]+)/i) *)
packSizeMatch(s) ==
    LET lit == Chars("pack size:")
        groupAt(p) ==
            IF ~literalAt(s, p, lit) THEN <<>>
            ELSE LET a == p + Len(lit) + Run(s, p + Len(lit), Space)
                     n == Run(s, a, Digits \cup {","})
                 IN  IF n >= 1 THEN <<SubSeq(s, a, a + n - 1)>> ELSE <<>>
    IN  leftmost(s, groupAt)

(* fullText.match(/Overall odds[\s\S]{0,200}?(1\s+in\s+[\d,.]+)/i) *)
overallOddsMatch(s) ==
    LET lit == Chars("overall odds")
        groupAt(p) ==
            IF ~literalAt(s, p, lit) THEN <<>>
            ELSE LET a == p + Len(lit)
                     phrases == {q \in a..(a + 200) : q <= Len(s) /\ oddsMatchAt(s, q) # 0}
                 IN  IF phrases # {}
                     THEN <<SubSeq(s, MinOf(phrases), oddsMatchAt(s, MinOf(phrases)) - 1)>>
                     ELSE <<>>
    IN  leftmost(s, groupAt)

(* text.match(/[\d,]+/) *)
numberMatch(s) ==
    LET groupAt(p) ==
            IF s[p] \in Digits \cup {","}
            THEN <<SubSeq(s, p, p + Run(s, p, Digits \cup {","}) - 1)>> ELSE <<>>
    IN  leftmost(s, groupAt)

(* text.match(/\$[\d,]+/) *)
dollarMatch(s) ==
    LET groupAt(p) ==
            IF s[p] = "$" /\ Run(s, p + 1, Digits \cup {","}) >= 1
            THEN <<SubSeq(s, p, p + Run(s, p + 1, Digits \cup {","}))>> ELSE <<>>
    IN  leftmost(s, groupAt)

(* lines[j].match(/pack size[^\d]*([\d,]+)/i): [^\d]* runs up to the first digit
   behind the label, where the group starts; with no digit behind the label it
   gives characters back until the group can begin at a comma. *)
sameLineMatch(s) ==
    LET lit == Chars("pack size")
        groupAt(p) ==
            IF ~literalAt(s, p, lit) THEN <<>>
            ELSE LET a == p + Len(lit)
                     digit == {q \in a..Len(s) : s[q] \in Digits}
                     comma == {q \in a..Len(s) : s[q] = ","}
                 IN  IF digit # {}
                     THEN <<SubSeq(s, MinOf(digit),
                              MinOf(digit) + Run(s, MinOf(digit), Digits \cup {","}) - 1)>>
                     ELSE IF comma # {} THEN <<<<",">>>>
                     ELSE <<>>
    IN  leftmost(s, groupAt)

(* text.toLowerCase().includes(word) *)
mentions(text, word) ==
    LET lit == Chars(word)
    IN  \E p \in 1..Len(text) : literalAt(text, p, lit)

(* The locals of a handler before its scan *)
ScalarDefaults ==
    [packSize |-> 0, guaranteedPrizeAmount |-> <<0, 1>>, totalTickets |-> 0,
     overallOdds |-> NA]

(* if (ticketMatch) totalTickets = parseNum(ticketMatch[1]) *)
ticketsStep(fullText, d) ==
    IF ticketMatch(fullText) # <<>>
    THEN [d EXCEPT !.totalTickets = parseNum(ticketMatch(fullText)[1])]
    ELSE d

(* Mutant of elementStep: Method 1 without its test guaranteedPrizeAmount === 0. *)
elementStep_NoFreeze(text, d) ==
    LET d1 == IF mentions(text, "pack size") /\ d.packSize = 0
                 /\ numberMatch(text) # <<>>
              THEN [d EXCEPT !.packSize = parseNum(numberMatch(text)[1])]
              ELSE d
        d2 == IF mentions(text, "guaranteed")
                 /\ dollarMatch(text) # <<>>
              THEN [d1 EXCEPT !.guaranteedPrizeAmount = parseDollar(dollarMatch(text)[1])]
              ELSE d1
    IN  IF mentions(text, "overall odds") /\ d2.overallOdds = NA
        THEN [d2 EXCEPT !.overallOdds = parseOdds(text)]
        ELSE d2

(* Method 1: the callback of each(...) for one element, of text text *)
elementStep(text, d) ==
    LET d1 == IF mentions(text, "pack size") /\ d.packSize = 0
                 /\ numberMatch(text) # <<>>
              THEN [d EXCEPT !.packSize = parseNum(numberMatch(text)[1])]
              ELSE d
        d2 == IF mentions(text, "guaranteed")
                 /\ d1.guaranteedPrizeAmount = <<0, 1>>
                 /\ dollarMatch(text) # <<>>
              THEN [d1 EXCEPT !.guaranteedPrizeAmount = parseDollar(dollarMatch(text)[1])]
              ELSE d1
    IN  IF mentions(text, "overall odds") /\ d2.overallOdds = NA
        THEN [d2 EXCEPT !.overallOdds = parseOdds(text)]
        ELSE d2

(* Method 2: the body of the loop for line j *)
lineStep(lines, j, d) ==
    LET line == lines[j]
        next == IF j < Len(lines) THEN lines[j + 1] ELSE <<>>
        d1 == IF mentions(line, "pack size") /\ d.packSize = 0
              THEN IF sameLineMatch(line) # <<>>
                   THEN [d EXCEPT !.packSize = parseNum(sameLineMatch(line)[1])]
                   ELSE IF next # <<>> THEN [d EXCEPT !.packSize = parseNum(next)]
                   ELSE d
              ELSE d
        d2 == IF mentions(line, "guaranteed")
                 /\ d1.guaranteedPrizeAmount = <<0, 1>>
                 /\ dollarMatch(line) # <<>>
              THEN [d1 EXCEPT !.guaranteedPrizeAmount = parseDollar(dollarMatch(line)[1])]
              ELSE d1
    IN  IF mentions(line, "overall odds") /\ d2.overallOdds = NA
        THEN IF parseOdds(line) = trim(line) /\ next # <<>>
             THEN [d2 EXCEPT !.overallOdds = parseOdds(next)]
             ELSE [d2 EXCEPT !.overallOdds = parseOdds(line)]
        ELSE d2

(* The revised handler: if (guaranteedMatch) guaranteedPrizeAmount = ... *)
guaranteedStep(fullText, d) ==
    IF guaranteedMatch(fullText) # <<>>
    THEN [d EXCEPT !.guaranteedPrizeAmount = parseDollar(guaranteedMatch(fullText)[1])]
    ELSE d

(* The revised handler: if (packSizeMatch) packSize = ... *)
packSizeStep(fullText, d) ==
    IF packSizeMatch(fullText) # <<>>
    THEN [d EXCEPT !.packSize = parseNum(packSizeMatch(fullText)[1])]
    ELSE d

(* The revised handler: if (oddsMatch) overallOdds = parseOdds(oddsMatch[1]) *)
overallOddsStep(fullText, d) ==
    IF overallOddsMatch(fullText) # <<>>
    THEN [d EXCEPT !.overallOdds = parseOdds(overallOddsMatch(fullText)[1])]
    ELSE d

-----------------------------------------------------------------------------
(* A detail page: its elements in document order, each on lines of its own. An
   element is a table of rows of cells, or an element of another tag with a text
   and a class ("" for none); a cell is a th or a td with a text, on a line of its
   own. *)

ElementOfClass(tag, class, text) ==
    [tag |-> tag, class |-> class, text |-> Chars(text), rows |-> <<>>]

Element(tag, text) == ElementOfClass(tag, "", text)

Table(rows) == [tag |-> "table", class |-> "", text |-> <<>>, rows |-> rows]

Th(text) == [tag |-> "th", text |-> Chars(text)]

Td(text) == [tag |-> "td", text |-> Chars(text)]

(* $(row).text() *)
rowText(row) == Flatten([k \in 1..Len(row) |-> row[k].text \o <<"\n">>])

(* $(el).text() *)
textOf(el) ==
    IF el.tag = "table" THEN Flatten([k \in 1..Len(el.rows) |-> rowText(el.rows[k])])
    ELSE el.text

(* $('body').text() *)
fullTextOf(html) == Flatten([k \in 1..Len(html) |-> textOf(html[k]) \o <<"\n">>])

(* $('table tr, dl, .game-detail, p'): the texts of the elements selected, in
   document order *)
selected(html) ==
    LET own(el) == IF el.tag \in {"dl", "p"} \/ el.class = "game-detail"
                   THEN <<textOf(el)>>
                   ELSE <<>>
        of(el) == IF el.tag = "table"
                  THEN own(el) \o [k \in 1..Len(el.rows) |-> rowText(el.rows[k])]
                  ELSE own(el)
    IN  Flatten([k \in 1..Len(html) |-> of(html[k])])

(* text.split('\n') *)
RECURSIVE split(_)
split(s) ==
    LET breaks == {k \in 1..Len(s) : s[k] = "\n"}
    IN  IF breaks = {} THEN <<s>>
        ELSE <<SubSeq(s, 1, MinOf(breaks) - 1)>> \o split(SubSeq(s, MinOf(breaks) + 1, Len(s)))

(* fullText.split('\n').map(l => l.trim()).filter(Boolean) *)
linesOf(fullText) ==
    LET parts == split(fullText)
    IN  SelectSeq([k \in 1..Len(parts) |-> trim(parts[k])], LAMBDA l : l # <<>>)

-----------------------------------------------------------------------------
(* The scan of the prize tables, in both detail handlers *)

(* The locals of the scan before the first table *)
PrizeDefaults ==
    [topPrize |-> <<0, 1>>, topPrizeInGame |-> 0, topPrizeClaimed |-> 0,
     prizesFound |-> FALSE]

(* a > b, for two amounts parseDollar returns *)
Greater(a, b) == a[1] * b[2] > b[1] * a[2]

(* The test that a table is a prize table *)
qualifies(table) ==
    /\ mentions(textOf(table), "prize")
    /\ mentions(textOf(table), "in game") \/ mentions(textOf(table), "claimed")

(* The column indices after the header cells j, j + 1, ... (counted from 0): the
   handler with Method 1 takes a cell with 'prize' and 'amount' for the prize
   amount, the revised handler a cell with 'amount'. *)
RECURSIVE headerCols(_, _, _, _)
headerCols(handler, cells, j, cols) ==
    IF j >= Len(cells) THEN cols
    ELSE LET header == cells[j + 1].text
             amount == IF handler = "get-game-detail"
                       THEN mentions(header, "prize") /\ mentions(header, "amount")
                       ELSE mentions(header, "amount")
         IN  headerCols(handler, cells, j + 1,
                 IF amount THEN [cols EXCEPT !.prizeAmountCol = j]
                 ELSE IF mentions(header, "in game") THEN [cols EXCEPT !.inGameCol = j]
                 ELSE IF mentions(header, "claimed") THEN [cols EXCEPT !.claimedCol = j]
                 ELSE cols)

(* The column indices of a table: 0, 1, 2 unless its first row says otherwise *)
columnsOf(handler, table) ==
    headerCols(handler, IF table.rows = <<>> THEN <<>> ELSE table.rows[1], 0,
               [prizeAmountCol |-> 0, inGameCol |-> 1, claimedCol |-> 2])

(* $(cells[col]).text().trim(): the empty text where the row has no such cell *)
cellText(cells, col) == IF col < Len(cells) THEN trim(cells[col + 1].text) ELSE <<>>

(* Mutant of rowStep: prizeVal >= topPrize, so that of equal prizes the last row
   is kept. *)
rowStep_LastWins(cols, row, t) ==
    LET cells == SelectSeq(row, LAMBDA cell : cell.tag = "td")
        prizeVal == parseDollar(cellText(cells, cols.prizeAmountCol))
        inGameVal == parseNum(cellText(cells, cols.inGameCol))
        claimedVal == parseNum(cellText(cells, cols.claimedCol))
    IN  IF Len(cells) < 3 THEN t
        ELSE IF Greater(prizeVal, <<0, 1>>) /\ (inGameVal > 0 \/ claimedVal >= 0)
        THEN IF ~Greater(t.topPrize, prizeVal)
             THEN [topPrize |-> prizeVal, topPrizeInGame |-> inGameVal,
                   topPrizeClaimed |-> claimedVal, prizesFound |-> TRUE]
             ELSE [t EXCEPT !.prizesFound = TRUE]
        ELSE t

(* Mutant of rowStep: the test of a row without prizeVal > 0, so that a row with
   no prize amount sets prizesFound. *)
rowStep_AnyRow(cols, row, t) ==
    LET cells == SelectSeq(row, LAMBDA cell : cell.tag = "td")
        prizeVal == parseDollar(cellText(cells, cols.prizeAmountCol))
        inGameVal == parseNum(cellText(cells, cols.inGameCol))
        claimedVal == parseNum(cellText(cells, cols.claimedCol))
    IN  IF Len(cells) < 3 THEN t
        ELSE IF inGameVal > 0 \/ claimedVal >= 0
        THEN IF Greater(prizeVal, t.topPrize)
             THEN [topPrize |-> prizeVal, topPrizeInGame |-> inGameVal,
                   topPrizeClaimed |-> claimedVal, prizesFound |-> TRUE]
             ELSE [t EXCEPT !.prizesFound = TRUE]
        ELSE t

(* The callback of each(...) for one row of a prize table *)
rowStep(cols, row, t) ==
    LET cells == SelectSeq(row, LAMBDA cell : cell.tag = "td")
        prizeVal == parseDollar(cellText(cells, cols.prizeAmountCol))
        inGameVal == parseNum(cellText(cells, cols.inGameCol))
        claimedVal == parseNum(cellText(cells, cols.claimedCol))
    IN  IF Len(cells) < 3 THEN t
        ELSE IF Greater(prizeVal, <<0, 1>>) /\ (inGameVal > 0 \/ claimedVal >= 0)
        THEN IF Greater(prizeVal, t.topPrize)
             THEN [topPrize |-> prizeVal, topPrizeInGame |-> inGameVal,
                   topPrizeClaimed |-> claimedVal, prizesFound |-> TRUE]
             ELSE [t EXCEPT !.prizesFound = TRUE]
        ELSE t

(* The rows j, j + 1, ... of a prize table *)
RECURSIVE rowsFrom(_, _, _, _)
rowsFrom(cols, rows, j, t) ==
    IF j > Len(rows) THEN t ELSE rowsFrom(cols, rows, j + 1, rowStep(cols, rows[j], t))

(* The callback of $('table').each(...) for one table *)
tableStep(handler, table, t) ==
    IF ~qualifies(table) THEN t
    ELSE rowsFrom(columnsOf(handler, table), table.rows, 1, t)

(* The tables k, k + 1, ... of the page *)
RECURSIVE tablesFrom(_, _, _, _)
tablesFrom(handler, tables, k, t) ==
    IF k > Len(tables) THEN t
    ELSE tablesFrom(handler, tables, k + 1, tableStep(handler, tables[k], t))

(* The scan of all tables of the page, from the defaults *)
prizeScan(handler, html) ==
    tablesFrom(handler, SelectSeq(html, LAMBDA el : el.tag = "table"), 1, PrizeDefaults)

-----------------------------------------------------------------------------
(* One invocation of a detail function on a detail page, step by step *)

MaxElements == 3

(* The elements the detail pages are made of: the fields as labelled paragraphs,
   a row of the prize table that mentions the guaranteed amount with another
   amount, fields that are no paragraph, labels with their value on the next
   line, and a block of class game-detail with a number before its label. *)
DetailElements ==
    {Element("p", "Pack Size: 75 tickets"),
     ElementOfClass("div", "game-detail", "Pack 5 Pack Size 75"),
     Element("div", "Pack Size\n50"),
     Element("p", "Guaranteed Total Prize Amount = $950 per pack"),
     Table(<<<<Td("$1,000 with a Guaranteed Total Prize Amount = $125")>>>>),
     Element("div", "Guaranteed Total Prize Amount: $400"),
     Element("p", "There are approximately 1,234,567* tickets in this game."),
     Element("p", "Overall odds of winning any prize are 1 in 4.33."),
     Element("div", "Overall odds\n1 in 3.5")}

DetailPages == SeqsUpTo(DetailElements, MaxElements)

(* Where the scan goes on from position (phase, k), with the locals d: Method 1
   ends behind the last element, Method 2 is entered only with packSize or
   totalTickets still 0 and ends behind the last line. *)
position(html, phase, k, d) ==
    IF phase = "elements" /\ k <= Len(selected(html)) THEN [phase |-> "elements", k |-> k]
    ELSE IF phase = "elements"
    THEN IF (d.packSize = 0 \/ d.totalTickets = 0) /\ linesOf(fullTextOf(html)) # <<>>
         THEN [phase |-> "lines", k |-> 1]
         ELSE [phase |-> "prizes", k |-> 0]
    ELSE IF phase = "lines" /\ k <= Len(linesOf(fullTextOf(html)))
    THEN [phase |-> "lines", k |-> k]
    ELSE IF phase = "lines" THEN [phase |-> "prizes", k |-> 0]
    ELSE [phase |-> phase, k |-> 0]

notDetailVars == <<appVars, normVars, listVars>>

DetailInit ==
    /\ AppOff
    /\ NormIdle
    /\ ListIdle
    /\ detailHtml \in DetailPages
    /\ detailHandler = "none"
    /\ scanAt = [phase |-> "none", k |-> 0]
    /\ scalars = <<>>
    /\ prizes = <<>>

(* exports.handler of a detail function is invoked and has fetched the page: its
   locals are declared. *)
Invoke(handler) ==
    /\ detailHandler = "none"
    /\ detailHandler' = handler
    /\ scalars' = ScalarDefaults
    /\ scanAt' = [phase |-> "tickets", k |-> 0]
    /\ UNCHANGED <<detailHtml, prizes, notDetailVars>>

(* Both handlers: the pattern of the total tickets on the full text *)
TicketsStep ==
    /\ scanAt.phase = "tickets"
    /\ scalars' = ticketsStep(fullTextOf(detailHtml), scalars)
    /\ scanAt' = IF detailHandler = "get-game-detail"
                 THEN position(detailHtml, "elements", 1, scalars')
                 ELSE [phase |-> "guaranteed", k |-> 0]
    /\ UNCHANGED <<detailHtml, detailHandler, prizes, notDetailVars>>

(* Method 1, one element *)
ElementStep ==
    /\ scanAt.phase = "elements"
    /\ scalars' = elementStep(selected(detailHtml)[scanAt.k], scalars)
    /\ scanAt' = position(detailHtml, "elements", scanAt.k + 1, scalars')
    /\ UNCHANGED <<detailHtml, detailHandler, prizes, notDetailVars>>

(* Method 2, one line *)
LineStep ==
    /\ scanAt.phase = "lines"
    /\ scalars' = lineStep(linesOf(fullTextOf(detailHtml)), scanAt.k, scalars)
    /\ scanAt' = position(detailHtml, "lines", scanAt.k + 1, scalars')
    /\ UNCHANGED <<detailHtml, detailHandler, prizes, notDetailVars>>

(* The revised handler: the pattern of the guaranteed amount on the full text *)
GuaranteedStep ==
    /\ scanAt.phase = "guaranteed"
    /\ scalars' = guaranteedStep(fullTextOf(detailHtml), scalars)
    /\ scanAt' = [phase |-> "packSize", k |-> 0]
    /\ UNCHANGED <<detailHtml, detailHandler, prizes, notDetailVars>>

(* The revised handler: the pattern of the pack size on the full text *)
PackSizeStep ==
    /\ scanAt.phase = "packSize"
    /\ scalars' = packSizeStep(fullTextOf(detailHtml), scalars)
    /\ scanAt' = [phase |-> "overallOdds", k |-> 0]
    /\ UNCHANGED <<detailHtml, detailHandler, prizes, notDetailVars>>

(* The revised handler: the pattern of the overall odds on the full text *)
OverallOddsStep ==
    /\ scanAt.phase = "overallOdds"
    /\ scalars' = overallOddsStep(fullTextOf(detailHtml), scalars)
    /\ scanAt' = [phase |-> "prizes", k |-> 0]
    /\ UNCHANGED <<detailHtml, detailHandler, prizes, notDetailVars>>

(* Both handlers: the scan of the prize tables, and the answer *)
PrizeScan ==
    /\ scanAt.phase = "prizes"
    /\ prizes' = prizeScan(detailHandler, detailHtml)
    /\ scanAt' = [phase |-> "done", k |-> 0]
    /\ UNCHANGED <<detailHtml, detailHandler, scalars, notDetailVars>>

DetailNext ==
    \/ \E handler \in {"get-game-detail", "get-game-detail-revised"} : Invoke(handler)
    \/ TicketsStep
    \/ ElementStep
    \/ LineStep
    \/ GuaranteedStep
    \/ PackSizeStep
    \/ OverallOddsStep
    \/ PrizeScan

DetailSpec == DetailInit /\ [][DetailNext]_vars

-----------------------------------------------------------------------------
(* Claims C18 and C19: the chain of strategies behind the scalar fields *)

ScalarFields == DOMAIN ScalarDefaults

(* The amount the step at position at reads for the guaranteed prize amount from
   what it looks at: the element, the line, or the full text. *)
AmountRead(html, at) ==
    LET source ==
            IF at.phase = "elements" THEN dollarMatch(selected(html)[at.k])
            ELSE IF at.phase = "lines" THEN dollarMatch(linesOf(fullTextOf(html))[at.k])
            ELSE IF at.phase = "guaranteed" THEN guaranteedMatch(fullTextOf(html))
            ELSE <<>>
    IN  IF source = <<>> THEN <<>> ELSE <<parseDollar(source[1])>>

(* C18: in both detail handlers no step of the scan changes a scalar field that an
   earlier step has resolved, and a step that resolves guaranteedPrizeAmount gives
   it the amount that step reads: with the phrase twice on the page, the field is
   the amount of the first step that succeeds. *)
C18_FrozenOnceResolved ==
    [][detailHandler # "none" =>
        /\ \A f \in ScalarFields :
               scalars[f] # ScalarDefaults[f] => scalars'[f] = scalars[f]
        /\ scalars'.guaranteedPrizeAmount # scalars.guaranteedPrizeAmount =>
               <<scalars'.guaranteedPrizeAmount>> = AmountRead(detailHtml, scanAt)]_vars

(* The page states the guaranteed amount in a paragraph and mentions it in a row
   of the prize table behind it, with other amounts: Method 1 has finished, and
   the field is the paragraph's amount. *)
C18_Witness ==
    /\ detailHandler = "get-game-detail"
    /\ scanAt.phase = "done"
    /\ Len(detailHtml) = 2
    /\ detailHtml[1] = Element("p", "Guaranteed Total Prize Amount = $950 per pack")
    /\ detailHtml[2] = Table(<<<<Td("$1,000 with a Guaranteed Total Prize Amount = $125")>>>>)
    /\ scalars.guaranteedPrizeAmount = <<950, 1>>

(* What one strategy alone yields on a page, from the defaults: the full-text
   patterns, the structural scan over all candidate elements, and the line-pair
   scan over all lines. *)
fullTextYield(html) ==
    LET fullText == fullTextOf(html)
    IN  overallOddsStep(fullText,
            packSizeStep(fullText,
                guaranteedStep(fullText, ticketsStep(fullText, ScalarDefaults))))

RECURSIVE structuralYield(_, _, _)
structuralYield(texts, k, d) ==
    IF k > Len(texts) THEN d ELSE structuralYield(texts, k + 1, elementStep(texts[k], d))

RECURSIVE linePairYield(_, _, _)
linePairYield(lines, j, d) ==
    IF j > Len(lines) THEN d ELSE linePairYield(lines, j + 1, lineStep(lines, j, d))

(* The value of field f that the chain of C19 extracts from a page. *)
ChainValue(html, f) ==
    LET first == fullTextYield(html)
        second == structuralYield(selected(html), 1, ScalarDefaults)
        third == linePairYield(linesOf(fullTextOf(html)), 1, ScalarDefaults)
    IN  IF first[f] # ScalarDefaults[f] THEN first[f]
        ELSE IF second[f] # ScalarDefaults[f] THEN second[f]
        ELSE third[f]

(* C19, as claimed: each scalar field a detail handler returns is the value of the
   first of the strategies full-text search, structural scan, line-pair scan that
   yields a value for that field on the page, and its default only when none
   does. *)
C19_FirstStrategyInOrder ==
    scanAt.phase = "done" =>
        \A f \in ScalarFields : scalars[f] = ChainValue(detailHtml, f)

-----------------------------------------------------------------------------
(* The detail functions on pages of tables *)

MaxTables == 2

PrizeHeader == <<Th("Prize Amount"), Th("No. In Game"), Th("No. Prizes Claimed")>>

(* A row of three td cells *)
Row3(first, second, third) == <<Td(first), Td(second), Td(third)>>

(* The tables the pages are made of: the prize table of two tiers; one whose top
   prize equals that of the first; one with the columns in another order, named
   in td cells; one that is no prize table; one with no positive prize and a row
   of two cells; one whose header names the amount column 'Amount'; one with a
   header cell 'Amount Claimed'. *)
PrizeTables ==
    {Table(<<PrizeHeader, Row3("$500", "10", "3"), Row3("$100,000", "2", "2")>>),
     Table(<<PrizeHeader, Row3("$100,000", "5", "1"), Row3("$20", "100", "40")>>),
     Table(<<Row3("No. In Game", "Prize Amount", "No. Prizes Claimed"),
             Row3("7", "$250,000", "4")>>),
     Table(<<Row3("Retailer", "City", "Sales"), Row3("$900,000", "1", "2")>>),
     Table(<<PrizeHeader, Row3("$0", "0", "0"), <<Td("$900"), Td("1")>>>>),
     Table(<<Row3("Prizes Claimed", "In Game", "Amount"), Row3("3", "10", "$2.50")>>),
     Table(<<Row3("No. In Game", "Amount Claimed", "Prize Amount"),
             Row3("9", "6", "$750")>>)}

PrizePages == SeqsUpTo(PrizeTables, MaxTables)

PrizeInit ==
    /\ AppOff
    /\ NormIdle
    /\ ListIdle
    /\ detailHtml \in PrizePages
    /\ detailHandler = "none"
    /\ scanAt = [phase |-> "none", k |-> 0]
    /\ scalars = <<>>
    /\ prizes = <<>>

PrizeSpec == PrizeInit /\ [][DetailNext]_vars

-----------------------------------------------------------------------------
(* Claim C20: the top prize *)

(* The rows of at least three cells of the qualifying tables of a page with a
   positive prize amount, in document order: of each the amount and the counts in
   the columns of its table. *)
PrizeRows(handler, html) ==
    LET tables == SelectSeq(html, LAMBDA el : el.tag = "table" /\ qualifies(el))
        read(table, row) ==
            LET cells == SelectSeq(row, LAMBDA cell : cell.tag = "td")
                cols == columnsOf(handler, table)
            IN  [cells |-> Len(cells),
                 prize |-> parseDollar(cellText(cells, cols.prizeAmountCol)),
                 inGame |-> parseNum(cellText(cells, cols.inGameCol)),
                 claimed |-> parseNum(cellText(cells, cols.claimedCol))]
        of(table) == [j \in 1..Len(table.rows) |-> read(table, table.rows[j])]
    IN  SelectSeq(Flatten([k \in 1..Len(tables) |-> of(tables[k])]),
                  LAMBDA r : r.cells >= 3 /\ Greater(r.prize, <<0, 1>>))

(* C20: when a detail handler has scanned the tables, topPrize is the greatest
   positive prize amount of the rows of at least three cells of the qualifying
   tables, topPrizeInGame and topPrizeClaimed are the counts of the first of these
   rows with that amount, and with no such row all three are 0 and prizesFound is
   false; the table of $500 and $100,000 gives 100000, 2, 2 and true. *)
C20_TopPrizeIsFirstMaximum ==
    scanAt.phase = "done" =>
        LET rows == PrizeRows(detailHandler, detailHtml)
        IN  /\ rows = <<>> => prizes = PrizeDefaults
            /\ rows # <<>> =>
                 \E k \in 1..Len(rows) :
                     /\ \A j \in 1..Len(rows) : ~Greater(rows[j].prize, rows[k].prize)
                     /\ \A j \in 1..(k - 1) : Greater(rows[k].prize, rows[j].prize)
                     /\ prizes.topPrize = rows[k].prize
                     /\ prizes.topPrizeInGame = rows[k].inGame
                     /\ prizes.topPrizeClaimed = rows[k].claimed
            /\ detailHtml = <<Table(<<PrizeHeader, Row3("$500", "10", "3"),
                                      Row3("$100,000", "2", "2")>>)>> =>
                 prizes = [topPrize |-> <<100000, 1>>, topPrizeInGame |-> 2,
                           topPrizeClaimed |-> 2, prizesFound |-> TRUE]

(* Two prize tables with the same top prize have been scanned: the counts are
   those of the row of the first table. *)
C20_Witness ==
    /\ scanAt.phase = "done"
    /\ Len(detailHtml) = 2
    /\ detailHtml[1] = Table(<<PrizeHeader, Row3("$500", "10", "3"),
                               Row3("$100,000", "2", "2")>>)
    /\ detailHtml[2] = Table(<<PrizeHeader, Row3("$100,000", "5", "1"),
                               Row3("$20", "100", "40")>>)
    /\ prizes = [topPrize |-> <<100000, 1>>, topPrizeInGame |-> 2,
                 topPrizeClaimed |-> 2, prizesFound |-> TRUE]

-----------------------------------------------------------------------------
(* Claim C21: the age of the cached snapshot *)

(* C21: the mount effect shows a cached snapshot whatever its age and starts no
   run; a render of the snapshot shown (the one after the mount effect, and any
   later one) has the stale-data warning exactly when the snapshot is older than 24
   hours at that moment, so a warning on the page tells of a snapshot that old; and
   the item of CACHE_KEY changes only when a run writes its snapshot or the mount
   effect removes a text that is not empty and that it cannot read, never for its
   age. *)
C21_StaleCacheOnlyWarns ==
    /\ [](ShowsCache /\ HoldsSnapshot /\ staleWarning =>
            now - localStorage[1].value.timestamp > CACHE_DURATION_MS)
    /\ [][/\ (/\ ShowsCache' /\ HoldsSnapshot'
              /\ (pc = "mounting" \/ rendered' # rendered)) =>
                 (staleWarning' <=>
                    now' - localStorage'[1].value.timestamp > CACHE_DURATION_MS)
          /\ pc = "mounting" /\ pc' # "mounting" =>
               /\ pc' = "idle"
               /\ HoldsSnapshot =>
                    /\ games' = localStorage[1].value.games
                    /\ lastUpdated' = localStorage[1].value.timestamp
                    /\ appState' = "done"
                    /\ localStorage' = localStorage
          /\ localStorage' # localStorage =>
               \/ pc = "detailing" /\ pc' = "idle" /\ appState' = "done"
               \/ /\ pc = "mounting"
                  /\ cachedTruthy(localStorage)
                  /\ tryThrows(localStorage[1])
                  /\ localStorage' = <<>>]_vars

(* A snapshot written more than 24 hours ago is shown from the cache, with the
   warning. *)
C21_Witness ==
    /\ ShowsCache
    /\ HoldsSnapshot
    /\ now - localStorage[1].value.timestamp > CACHE_DURATION_MS
    /\ games = localStorage[1].value.games
    /\ staleWarning

-----------------------------------------------------------------------------
(* Claim C22: the progress pair *)

(* The number of records of the collection in a terminal state *)
TerminalCount == Cardinality({k \in DOMAIN games : Terminal(games[k])})

(* C22, as claimed: from the first batch to the end of the run, 0 <= current <=
   total, total is the number of summaries and current the number of records in a
   terminal state; current never decreases and grows by one with each completed
   fetch; and current is total when the run is 'done'. *)
C22_ProgressCountsTerminal ==
    /\ [](pc = "detailing" \/ RunFinished =>
            /\ 0 <= progress.current /\ progress.current <= progress.total
            /\ progress.total = Len(summaries)
            /\ progress.current = TerminalCount)
    /\ [](RunFinished => progress.current = progress.total)
    /\ [][pc = "detailing" /\ pc' # "mounting" =>
            /\ progress'.current >= progress.current
            /\ progress'.total = progress.total
            /\ inflight' # inflight /\ inflight' \subseteq inflight =>
                 progress'.current = progress.current + 1]_vars

(* C22 holds of the listings whose identifiers are unique. *)
C22_WhenIdentifiersUnique ==
    /\ [](UniqueIdentifiers /\ (pc = "detailing" \/ RunFinished) =>
            /\ 0 <= progress.current /\ progress.current <= progress.total
            /\ progress.total = Len(summaries)
            /\ progress.current = TerminalCount)
    /\ [](RunFinished => progress.current = progress.total)
    /\ [][pc = "detailing" /\ pc' # "mounting" =>
            /\ progress'.current >= progress.current
            /\ progress'.total = progress.total
            /\ inflight' # inflight /\ inflight' \subseteq inflight =>
                 progress'.current = progress.current + 1]_vars

-----------------------------------------------------------------------------
(* Claim C23: the column roles of a prize table *)

(* The roles: the local that holds the column, the substring of its header cell,
   and the positional default *)
Roles ==
    {[col |-> "prizeAmountCol", substring |-> "amount", default |-> 0],
     [col |-> "inGameCol", substring |-> "in game", default |-> 1],
     [col |-> "claimedCol", substring |-> "claimed", default |-> 2]}

(* The indices (from 0) of the header cells of a table that name a role *)
HeaderCells(table, role) ==
    IF table.rows = <<>> THEN {}
    ELSE {j \in 0..(Len(table.rows[1]) - 1) :
              mentions(table.rows[1][j + 1].text, role.substring)}

(* The columns cols are resolved per role: the index of a header cell that names
   the role, the default only when no header cell does. *)
ResolvedPerRole(table, cols) ==
    \A role \in Roles :
        IF HeaderCells(table, role) = {}
        THEN cols[role.col] = role.default
        ELSE cols[role.col] \in HeaderCells(table, role)

(* C23, as claimed: for every qualifying table a detail handler has scanned, each
   column role is resolved on its own, to the index of the header cell with the
   role's substring ('amount', 'in game', 'claimed'), and to its positional
   default 0, 1, 2 only when no header cell has the substring. *)
C23_HeaderMatchPerRole ==
    scanAt.phase = "done" =>
        \A k \in DOMAIN detailHtml :
            detailHtml[k].tag = "table" /\ qualifies(detailHtml[k]) =>
                ResolvedPerRole(detailHtml[k], columnsOf(detailHandler, detailHtml[k]))

(* The revised handler resolves the roles as claimed for the tables of which no
   header cell names two roles. *)
C23_RevisedOneRolePerCell ==
    scanAt.phase = "done" /\ detailHandler = "get-game-detail-revised" =>
        \A k \in DOMAIN detailHtml :
            (/\ detailHtml[k].tag = "table" /\ qualifies(detailHtml[k])
             /\ \A r1, r2 \in Roles :
                    r1 # r2 => HeaderCells(detailHtml[k], r1) \cap
                                   HeaderCells(detailHtml[k], r2) = {}) =>
                ResolvedPerRole(detailHtml[k], columnsOf(detailHandler, detailHtml[k]))

-----------------------------------------------------------------------------
(* Claim C24: the snapshot in the cache *)

(* The records of the snapshot the item of CACHE_KEY holds *)
CachedGames == localStorage[1].value.games

(* C24, as claimed: the snapshot a run has written holds the records of the run's
   final games collection, the same identifiers in the same order and each in the
   same terminal state; and no record with status 'loading' is in the cache, or
   shown from it with appState 'done'. *)
C24_CacheHoldsFinalGames ==
    /\ RunFinished /\ cacheWritten =>
         /\ Len(CachedGames) = Len(games)
         /\ \A k \in DOMAIN games :
                /\ CachedGames[k].gameNumber = games[k].gameNumber
                /\ CachedGames[k].status = games[k].status
                /\ Terminal(CachedGames[k])
    /\ HoldsSnapshot =>
         \A k \in DOMAIN CachedGames : CachedGames[k].status # "loading"
    /\ ShowsCache => \A k \in DOMAIN games : games[k].status # "loading"

-----------------------------------------------------------------------------
(* Claim C25: a game with a named row is listed *)

(* The row is a game row with a valid name for a listing function: its first cell
   links to a detail page and carries an identifier, and the cell of the name in
   the function's layout (the second of at least four cells for get-games.js, the
   fifth of at least five for the revised handler) is neither empty nor '*'. *)
NamedGameRow(handler, cells) ==
    /\ HasLink(cells)
    /\ Identifier(cells) # <<>>
    /\ IF handler = "get-games"
       THEN /\ Len(cells) >= 4
            /\ cells[1].link[1].href # <<>>
            /\ trim(cells[2].text) \notin {<<>>, <<"*">>}
       ELSE /\ Len(cells) >= 5
            /\ includes(cells[1].link[1].href, Chars("details.html"))
            /\ trim(cells[5].text) \notin {<<>>, <<"*">>}

(* The number of summaries of the output with this identifier *)
Listings(gameNumber) ==
    Cardinality({k \in 1..Len(listGames) : listGames[k].gameNumber = gameNumber})

(* C25, as claimed: every identifier with a game row of a valid name on the page
   is once in the output of a listing function, whatever rows with the same
   identifier stand before that row. *)
C25_NamedGameListedOnce ==
    listHandler # "none" =>
        \A k \in 1..Len(listHtml) :
            NamedGameRow(listHandler, listHtml[k].cells) =>
                Listings(Identifier(listHtml[k].cells)) = 1

(* The revised listing handler lists an identifier at most once, and once when
   the first row that carries it in a link to a detail page has a valid name. *)
C25_RevisedWhenFirstRowNamed ==
    listHandler = "get-games-revised" =>
        \A k \in 1..Len(listHtml) :
            NamedGameRow(listHandler, listHtml[k].cells) =>
                /\ Listings(Identifier(listHtml[k].cells)) <= 1
                /\ (\A j \in 1..(k - 1) :
                       (/\ Len(listHtml[j].cells) >= 5 /\ HasLink(listHtml[j].cells)
                        /\ includes(listHtml[j].cells[1].link[1].href, Chars("details.html"))
                        /\ Identifier(listHtml[j].cells) = Identifier(listHtml[k].cells))
                           => NamedGameRow(listHandler, listHtml[j].cells))
                      => Listings(Identifier(listHtml[k].cells)) = 1

-----------------------------------------------------------------------------
(* Claim C26: the prize fields of an answer agree *)

(* C26: in the answer of a detail handler prizesFound is true exactly when
   topPrize > 0, and with prizesFound false topPrizeInGame and topPrizeClaimed
   are 0. *)
C26_PrizesFoundIffTopPrize ==
    scanAt.phase = "done" =>
        /\ prizes.prizesFound <=> Greater(prizes.topPrize, <<0, 1>>)
        /\ ~prizes.prizesFound =>
               prizes.topPrizeInGame = 0 /\ prizes.topPrizeClaimed = 0

(* A handler has answered for a page whose prize table has a row of three cells
   with the amount $0 and a row of two cells with $900: no prize is found. *)
C26_Witness ==
    /\ scanAt.phase = "done"
    /\ detailHtml = <<Table(<<PrizeHeader, Row3("$0", "0", "0"), <<Td("$900"), Td("1")>>>>)>>
    /\ ~prizes.prizesFound
    /\ prizes.topPrize = <<0, 1>>

====
